---- MODULE Spec2Model ----
(***************************************************************************)
(* Eco-Fin profitability records, monthly settings, the Excel import       *)
(* pipeline and SmartBill invoice issuance of the ISS platform             *)
(* (backend/ecofin).                                                       *)
(*                                                                         *)
(* Money.  Every DecimalField of the models has decimal_places=2, so a     *)
(* stored amount is an integer number of hundredths ("cents").  A Decimal  *)
(* held in memory by a request may carry more digits (a product of two     *)
(* amounts, a share of the indirect expenses): it is a pair <<num, den>>,  *)
(* the exact rational num/den in cents.  Writing a model instance to the   *)
(* database rounds every decimal field to two places (Quantize).           *)
(***************************************************************************)
EXTENDS Integers, Sequences, FiniteSets, TLC

VARIABLES
    backend,    \* database engine of the deployment (fixes the rounding of stored decimals)
    settings,   \* table EcoFinSettings
    records,    \* table EcoFinProcessedRecord
    invoices,   \* table BillingInvoice
    smartbill,  \* invoices issued in the external SmartBill account
    synclogs,   \* table BillingSyncLog, in the order of creation
    emaillogs,  \* table BillingEmailLog, in the order of creation
    now,        \* the clock that timezone.now() reads
    resp,       \* the last response: status code and what its body carries
    request,    \* what the request being answered worked through: the rows of an
                \* import, the body of a difference invoice, the payments of a sync
    clients,    \* table Client of the iss application, by id
    workers,    \* table Worker of the iss application
    activity,   \* table ActivityLog, in the order of creation
    previous_state,  \* the module-level dict _worker_previous_state of iss.signals
    saves       \* the Worker.save() calls in progress, by request thread

\* The state of the iss application's worker endpoints.
workerVars == <<workers, activity, previous_state, saves>>

vars ==
    <<backend, settings, records, invoices, smartbill, synclogs, emaillogs, now, resp,
      request, clients, workers, activity, previous_state, saves>>

----------------------------------------------------------------------------
(* Decimal arithmetic *)

Abs(x) == IF x < 0 THEN -x ELSE x

Sign(x) == IF x < 0 THEN -1 ELSE 1

RECURSIVE GCD(_, _)
GCD(a, b) == IF b = 0 THEN a ELSE GCD(b, a % b)

\* The fraction in lowest terms, with a positive denominator.
Norm(a) ==
    LET g == GCD(Abs(a[1]), a[2])
    IN  IF g = 0 THEN a ELSE <<a[1] \div g, a[2] \div g>>

\* An in-memory Decimal is the pair <<num, den>>: num/den hundredths.
\* Rat(c) is the Decimal of a two-decimal amount of c hundredths.
Rat(c) == <<c, 1>>

RAdd(a, b) == Norm(<<a[1] * b[2] + b[1] * a[2], a[2] * b[2]>>)

RSub(a, b) == Norm(<<a[1] * b[2] - b[1] * a[2], a[2] * b[2]>>)

\* Product of two Decimals: (a/100) * (b/100), in hundredths.
RMul(a, b) == Norm(<<a[1] * b[1], 100 * a[2] * b[2]>>)

\* a * (rate / 100) for a rate in percent: (a/100) * (rate/100) / 100, in hundredths.
RPercent(a, rate) ==
    LET f == Norm(<<rate[1], 10000 * rate[2]>>)
    IN  Norm(<<a[1] * f[1], a[2] * f[2]>>)

RLeq(a, b) == a[1] * b[2] <= b[1] * a[2]

\* Round num/den to an integer, ties to the even neighbour
\* (decimal.ROUND_HALF_EVEN, used by django.db.backends.utils.format_number).
RoundHalfEven(num, den) ==
    LET q == Abs(num) \div den
        r == Abs(num) % den
    IN  Sign(num) * (IF 2 * r < den THEN q
                     ELSE IF 2 * r > den THEN q + 1
                     ELSE IF q % 2 = 0 THEN q ELSE q + 1)

\* Round num/den to an integer, ties away from zero (PostgreSQL numeric).
RoundHalfUp(num, den) ==
    Sign(num) * ((2 * Abs(num) + den) \div (2 * den))

Backends == {"postgresql", "sqlite"}

\* What a DecimalField(decimal_places=2) column holds after the in-memory
\* Decimal a is written to it.
Quantize(a) ==
    IF backend = "postgresql" THEN RoundHalfUp(a[1], a[2])
    ELSE RoundHalfEven(a[1], a[2])

----------------------------------------------------------------------------
(* Users and master data *)

Roles == {"Management", "Admin", "Expert", "Agent"}

SuperUser == [is_superuser |-> TRUE, role |-> "Admin"]

Manager == [is_superuser |-> FALSE, role |-> "Management"]

Expert == [is_superuser |-> FALSE, role |-> "Expert"]

Users == {SuperUser, Manager, Expert}

\* ecofin.views.IsManagementOrAdmin.has_permission
IsManagementOrAdmin(u) ==
    \/ u.is_superuser
    \/ u.role \in {"Management", "Admin"}

\* Workers and clients of the iss application that exist in the database.
Workers == {1, 2}

Clients == {1, 2}

\* A worker id that a request may carry but that has no row.
MissingWorker == 9

\* A client id that a request may carry but that has no row.
MissingClient == 8

\* iss.models.Client: the rows the deployment starts with.
ClientTable ==
    [c \in Clients |->
        IF c = 1
        THEN [tarif_orar |-> 3000, cazare_cost |-> 50000, masa_cost |-> 30000,
              transport_cost |-> 20000]
        ELSE [tarif_orar |-> 2525, cazare_cost |-> 0, masa_cost |-> 0, transport_cost |-> 1]]

\* iss.models.Client: tarif_orar, cazare_cost, masa_cost, transport_cost of a row.
ClientRow(c) == clients[c]

Periods == {[year |-> 2024, month |-> 11], [year |-> 2024, month |-> 12]}

----------------------------------------------------------------------------
(* EcoFinProcessedRecord *)

\* A table is the set of its rows.  The surrogate primary key is left out: the
\* handlers address a row through get_object() and never compare ids.

InputFields == {"ore_lucrate", "salariu_brut", "cam", "tarif_orar", "cost_cazare",
                "cost_masa", "cost_transport", "cota_indirecte", "cost_concediu"}

DerivedFields == {"cost_salarial_complet", "cost_salariat_total", "venit_generat",
                  "profitabilitate"}

KeyFields == {"worker", "client", "year", "month"}

DecimalFields == InputFields \cup DerivedFields

RecordFields == {"is_validated"} \cup KeyFields \cup DecimalFields

\* Fields of EcoFinProcessedRecordSerializer that a request may write.
WritableFields == KeyFields \cup InputFields \cup {"is_validated"}

\* The model instance built from a database row: every decimal is exact.
FromRow(row) ==
    [f \in RecordFields |-> IF f \in DecimalFields THEN Rat(row[f]) ELSE row[f]]

\* The database row written from a model instance.
ToRow(inst) ==
    [f \in RecordFields |-> IF f \in DecimalFields THEN Quantize(inst[f]) ELSE inst[f]]

\* The total without the holiday cost.
calculate_costs_and_profit_no_concediu(self) ==
    LET cost_salarial_complet == RAdd(self.salariu_brut, self.cam)
        cost_salariat_total ==
            RAdd(RAdd(RAdd(RAdd(cost_salarial_complet, self.cost_cazare), self.cost_masa),
                      self.cost_transport), self.cota_indirecte)
        venit_generat == RMul(self.ore_lucrate, self.tarif_orar)
    IN  [self EXCEPT !.cost_salarial_complet = cost_salarial_complet,
                     !.cost_salariat_total = cost_salariat_total,
                     !.venit_generat = venit_generat,
                     !.profitabilitate = RSub(venit_generat, cost_salariat_total)]

\* A computation that adds the costs to the total the instance already holds.
calculate_costs_and_profit_accumulating(self) ==
    LET cost_salarial_complet == RAdd(self.salariu_brut, self.cam)
        cost_salariat_total ==
            RAdd(self.cost_salariat_total,
                 RAdd(RAdd(RAdd(RAdd(RAdd(cost_salarial_complet, self.cost_cazare),
                                     self.cost_masa), self.cost_transport),
                           self.cota_indirecte), self.cost_concediu))
        venit_generat == RMul(self.ore_lucrate, self.tarif_orar)
        profitabilitate == RSub(venit_generat, cost_salariat_total)
    IN  [self EXCEPT !.cost_salarial_complet = cost_salarial_complet,
                     !.cost_salariat_total = cost_salariat_total,
                     !.venit_generat = venit_generat,
                     !.profitabilitate = profitabilitate]

calculate_costs_and_profit(self) ==
    LET cost_salarial_complet == RAdd(self.salariu_brut, self.cam)
        cost_salariat_total ==
            RAdd(RAdd(RAdd(RAdd(RAdd(cost_salarial_complet, self.cost_cazare),
                                self.cost_masa), self.cost_transport),
                      self.cota_indirecte), self.cost_concediu)
        venit_generat == RMul(self.ore_lucrate, self.tarif_orar)
        profitabilitate == RSub(venit_generat, cost_salariat_total)
    IN  [self EXCEPT !.cost_salarial_complet = cost_salarial_complet,
                     !.cost_salariat_total = cost_salariat_total,
                     !.venit_generat = venit_generat,
                     !.profitabilitate = profitabilitate]

\* A save that recomputes whatever is_validated says.
EcoFinProcessedRecord_save_always(self) == ToRow(calculate_costs_and_profit(self))

\* EcoFinProcessedRecord.save: the row that ends up in the table.
EcoFinProcessedRecord_save(self) ==
    IF ~self.is_validated
    THEN ToRow(calculate_costs_and_profit(self))
    ELSE ToRow(self)

\* Model field defaults of a new instance.
NewInstance ==
    [f \in RecordFields |->
        IF f = "is_validated" THEN FALSE
        ELSE IF f \in DecimalFields THEN Rat(0)
        ELSE 0]

\* instance.<field> = value for every field the request supplies.
SetAttrs(inst, data) ==
    [f \in RecordFields |->
        IF f \in DOMAIN data
        THEN (IF f \in DecimalFields THEN Rat(data[f]) ELSE data[f])
        ELSE inst[f]]



SameKey(a, b) ==
    /\ a.worker = b.worker
    /\ a.client = b.client
    /\ a.year = b.year
    /\ a.month = b.month

\* No unique constraint on the key.
UniqueViolationNever(others, new) == FALSE

\* Meta.unique_together = ['worker', 'client', 'year', 'month']: would
\* adding row new to the rows others break the constraint?
UniqueViolation(others, new) ==
    \E r \in others : SameKey(r, new)

----------------------------------------------------------------------------
(* Responses *)

\* The status code of the response and the message its body carries.
Respond(status, detail) == resp' = [status |-> status, detail |-> detail]

\* rest_framework: the permission class refused the request.
PermissionDenied == Respond(403, "permission_denied")

\* rest_framework: serializer.is_valid(raise_exception=True) failed on a missing field.
Required == Respond(400, "required")

\* rest_framework: UniqueTogetherValidator refused the data.
NotUnique == Respond(400, "unique_together")

----------------------------------------------------------------------------
(* EcoFinProcessedRecordViewSet *)

\* POST /api/eco-fin/records/ (ModelViewSet.create with perform_create).
RecordCreate(u, data) ==
    /\ UNCHANGED <<backend, clients, workerVars, synclogs, emaillogs, now, settings, invoices, smartbill>>
    /\ request' = <<>>
    /\ IF ~IsManagementOrAdmin(u)
       THEN PermissionDenied /\ UNCHANGED records
       ELSE IF ~(KeyFields \subseteq DOMAIN data)
       THEN Required /\ UNCHANGED records
       ELSE LET new == EcoFinProcessedRecord_save(SetAttrs(NewInstance, data))
            IN  IF UniqueViolation(records, new)
                THEN NotUnique /\ UNCHANGED records
                ELSE Respond(201, "created") /\ records' = records \cup {new}

\* The update without the check on is_validated.
RecordUpdateUnguarded(u, r, data, partial) ==
    /\ r \in records
    /\ UNCHANGED <<backend, clients, workerVars, synclogs, emaillogs, now, settings, invoices, smartbill>>
    /\ request' = <<>>
    /\ IF ~IsManagementOrAdmin(u)
       THEN PermissionDenied /\ UNCHANGED records
       ELSE LET new == EcoFinProcessedRecord_save(SetAttrs(FromRow(r), data))
            IN  Respond(200, "updated") /\ records' = (records \ {r}) \cup {new}

\* PUT (partial = FALSE) and PATCH (partial = TRUE) /api/eco-fin/records/{id}/.
\* partial_update calls update, so both pass the validation check.
RecordUpdate(u, r, data, partial) ==
    /\ r \in records
    /\ UNCHANGED <<backend, clients, workerVars, synclogs, emaillogs, now, settings, invoices, smartbill>>
    /\ request' = <<>>
    /\ IF ~IsManagementOrAdmin(u)
       THEN PermissionDenied /\ UNCHANGED records
       ELSE IF r.is_validated /\ ~u.is_superuser
       THEN Respond(403, "record_validated_modify") /\ UNCHANGED records
       ELSE IF ~partial /\ ~(KeyFields \subseteq DOMAIN data)
       THEN Required /\ UNCHANGED records
       ELSE LET new == EcoFinProcessedRecord_save(SetAttrs(FromRow(r), data))
            IN  IF UniqueViolation(records \ {r}, new)
                THEN NotUnique /\ UNCHANGED records
                ELSE Respond(200, "updated") /\ records' = (records \ {r}) \cup {new}

\* DELETE /api/eco-fin/records/{id}/.
RecordDestroy(u, r) ==
    /\ r \in records
    /\ UNCHANGED <<backend, clients, workerVars, synclogs, emaillogs, now, settings, invoices, smartbill>>
    /\ request' = <<>>
    /\ IF ~IsManagementOrAdmin(u)
       THEN PermissionDenied /\ UNCHANGED records
       ELSE IF r.is_validated /\ ~u.is_superuser
       THEN Respond(403, "record_validated_delete") /\ UNCHANGED records
       ELSE Respond(204, "deleted") /\ records' = records \ {r}

InPeriod(row, p) == row.year = p.year /\ row.month = p.month

\* POST /api/eco-fin/records/validate-month/.
validate_month(u, p) ==
    /\ UNCHANGED <<backend, clients, workerVars, synclogs, emaillogs, now, invoices, smartbill>>
    /\ request' = <<>>
    /\ IF ~IsManagementOrAdmin(u)
       THEN PermissionDenied /\ UNCHANGED <<records, settings>>
       ELSE LET todo == {r \in records : InPeriod(r, p) /\ ~r.is_validated}
            IN  IF todo = {}
                THEN Respond(400, "nothing_to_validate") /\ UNCHANGED <<records, settings>>
                ELSE /\ records' = (records \ todo)
                                   \cup {[r EXCEPT !.is_validated = TRUE] : r \in todo}
                     /\ settings' = {IF InPeriod(s, p) THEN [s EXCEPT !.is_locked = TRUE]
                                     ELSE s : s \in settings}
                     /\ Respond(200, "month_validated")

----------------------------------------------------------------------------
(* EcoFinSettingsViewSet *)

SettingsFields == {"year", "month", "cheltuieli_indirecte", "cost_concediu", "is_locked"}

\* Meta.unique_together = ['year', 'month'].
SettingsUniqueViolation(others, new) ==
    \E s \in others : InPeriod(s, new)

SettingsSetAttrs(inst, data) ==
    [f \in SettingsFields |-> IF f \in DOMAIN data THEN data[f] ELSE inst[f]]

NewSettings ==
    [year |-> 0, month |-> 0, cheltuieli_indirecte |-> 0, cost_concediu |-> 0,
     is_locked |-> FALSE]

\* POST /api/eco-fin/settings/.
SettingsCreate(u, data) ==
    /\ UNCHANGED <<backend, clients, workerVars, synclogs, emaillogs, now, records, invoices, smartbill>>
    /\ request' = <<>>
    /\ IF ~IsManagementOrAdmin(u)
       THEN PermissionDenied /\ UNCHANGED settings
       ELSE IF ~({"year", "month"} \subseteq DOMAIN data)
       THEN Required /\ UNCHANGED settings
       ELSE LET new == SettingsSetAttrs(NewSettings, data)
            IN  IF SettingsUniqueViolation(settings, new)
                THEN NotUnique /\ UNCHANGED settings
                ELSE Respond(201, "created") /\ settings' = settings \cup {new}

\* PUT and PATCH /api/eco-fin/settings/{id}/.
SettingsUpdate(u, s, data, partial) ==
    /\ s \in settings
    /\ UNCHANGED <<backend, clients, workerVars, synclogs, emaillogs, now, records, invoices, smartbill>>
    /\ request' = <<>>
    /\ IF ~IsManagementOrAdmin(u)
       THEN PermissionDenied /\ UNCHANGED settings
       ELSE IF s.is_locked /\ ~u.is_superuser
       THEN Respond(403, "settings_locked") /\ UNCHANGED settings
       ELSE IF ~partial /\ ~({"year", "month"} \subseteq DOMAIN data)
       THEN Required /\ UNCHANGED settings
       ELSE LET new == SettingsSetAttrs(s, data)
            IN  IF SettingsUniqueViolation(settings \ {s}, new)
                THEN NotUnique /\ UNCHANGED settings
                ELSE Respond(200, "updated") /\ settings' = (settings \ {s}) \cup {new}

\* DELETE /api/eco-fin/settings/{id}/: ModelViewSet.destroy, not overridden.
SettingsDestroy(u, s) ==
    /\ s \in settings
    /\ UNCHANGED <<backend, clients, workerVars, synclogs, emaillogs, now, records, invoices, smartbill>>
    /\ request' = <<>>
    /\ IF ~IsManagementOrAdmin(u)
       THEN PermissionDenied /\ UNCHANGED settings
       ELSE Respond(204, "deleted") /\ settings' = settings \ {s}

----------------------------------------------------------------------------
(* EcoFinImportViewSet.process_import *)

\* One preview row of the request body is
\* [is_valid, worker_id, client_id, ore_lucrate, salariu_brut, cam].  Amounts are the
\* two-decimal numbers of the preview; Decimal(str(x)) of such a number is exact.
ImportInstance(row, p, s, cota_indirecte) ==
    LET client == ClientRow(row.client_id)
    IN  [NewInstance EXCEPT
            !.worker = row.worker_id,
            !.client = row.client_id,
            !.year = p.year,
            !.month = p.month,
            !.ore_lucrate = Rat(row.ore_lucrate),
            !.salariu_brut = Rat(row.salariu_brut),
            !.cam = Rat(row.cam),
            !.tarif_orar = Rat(client.tarif_orar),
            !.cost_cazare = Rat(client.cazare_cost),
            !.cost_masa = Rat(client.masa_cost),
            !.cost_transport = Rat(client.transport_cost),
            !.cota_indirecte = cota_indirecte,
            !.cost_concediu = Rat(s.cost_concediu),
            !.is_validated = FALSE]

\* valid_rows = [r for r in rows if r.get('is_valid')]
IsValidRow(row) == row.is_valid

\* Every row taken, whatever the preview said of it.
ValidRowsAll(rows) == rows

ValidRows(rows) == SelectSeq(rows, IsValidRow)

\* The month's expenses charged whole to every record.
CotaIndirecteUndivided(s, valid_count) == Rat(s.cheltuieli_indirecte)

\* cota_indirecte = float(cheltuieli_indirecte) / valid_count if valid_count > 0 else 0,
\* then Decimal(str(cota_indirecte)).  The quotient is kept exact: for the counts used
\* here the double and its shortest decimal form differ from it by less than 1e-12 and
\* fall on the same side of every two-decimal rounding boundary.
CotaIndirecte(s, valid_count) ==
    IF valid_count > 0 THEN <<s.cheltuieli_indirecte, valid_count>> ELSE Rat(0)

\* Does Model.objects.create(...) of this row raise a database error?
InsertFails(table, new) == UniqueViolation(table, new)

\* The loop inside "with transaction.atomic()".  base: the table when the loop starts;
\* created: rows inserted so far; errors: rows whose exception was caught;
\* broken: an insert raised a database error, which marks the transaction for
\* rollback (Model.save_base, mark_for_rollback_on_error): every later query raises
\* TransactionManagementError and the block rolls back when it exits.
RECURSIVE ImportLoop(_, _, _, _, _, _, _, _)
ImportLoop(valid_rows, i, base, created, errors, broken, p, ctx) ==
    IF i > Len(valid_rows)
    THEN [created |-> created, errors |-> errors, broken |-> broken]
    ELSE LET row == valid_rows[i]
         IN  IF broken
             THEN ImportLoop(valid_rows, i + 1, base, created, errors + 1, TRUE, p, ctx)
             ELSE IF row.worker_id \notin Workers \/ row.client_id \notin DOMAIN clients
             THEN ImportLoop(valid_rows, i + 1, base, created, errors + 1, FALSE, p, ctx)
             ELSE LET new == EcoFinProcessedRecord_save(
                                 ImportInstance(row, p, ctx.settings, ctx.cota_indirecte))
                  IN  IF InsertFails(base \cup created, new)
                      THEN ImportLoop(valid_rows, i + 1, base, created, errors + 1, TRUE, p, ctx)
                      ELSE ImportLoop(valid_rows, i + 1, base, created \cup {new}, errors,
                                      FALSE, p, ctx)

\* Rows committed when the atomic block exits.
Committed(result) == IF result.broken THEN {} ELSE result.created

\* POST /api/eco-fin/import/process/.  The rows are read from the body after the
\* permission check and the settings lookup.
process_import(u, p, rows) ==
    /\ UNCHANGED <<backend, clients, workerVars, synclogs, emaillogs, now, settings, invoices, smartbill>>
    /\ IF ~IsManagementOrAdmin(u)
       THEN PermissionDenied /\ UNCHANGED records /\ request' = <<>>
       ELSE IF ~(\E s \in settings : InPeriod(s, p))
       THEN Respond(400, "settings_missing") /\ UNCHANGED records /\ request' = <<>>
       ELSE LET s == CHOOSE x \in settings : InPeriod(x, p)
                kept == {r \in records : ~(InPeriod(r, p) /\ ~r.is_validated)}
                valid_rows == ValidRows(rows)
                valid_count == Len(valid_rows)
                cota_indirecte == CotaIndirecte(s, valid_count)
                result == ImportLoop(valid_rows, 1, kept, {}, 0, FALSE, p,
                                     [settings |-> s, cota_indirecte |-> cota_indirecte])
            IN  /\ request' = rows
                /\ records' = kept \cup Committed(result)
                /\ resp' = [status |-> 200, detail |-> "import_processed",
                            year |-> p.year, month |-> p.month,
                            created_records |-> Cardinality(result.created),
                            errors |-> result.errors]

\* POST /api/eco-fin/import/upload/ with a file, a year and a month: the preview
\* is computed from the file and no record is written.
upload(u, p) ==
    /\ UNCHANGED <<backend, clients, workerVars, synclogs, emaillogs, now, settings, invoices,
                   smartbill, records>>
    /\ request' = <<>>
    /\ IF ~IsManagementOrAdmin(u) THEN PermissionDenied
       ELSE IF \E r \in records : InPeriod(r, p) /\ r.is_validated
       THEN Respond(400, "month_already_validated")
       ELSE IF ~(\E s \in settings : InPeriod(s, p))
       THEN Respond(400, "settings_missing")
       ELSE resp' = [status |-> 200, detail |-> "preview", year |-> p.year, month |-> p.month]

\* The bodies worth sending as user u for period p: a request that is refused before
\* its rows are read is sent once, with no rows.
BodiesFor(u, p, bodies) ==
    IF IsManagementOrAdmin(u) /\ (\E s \in settings : InPeriod(s, p)) THEN bodies ELSE {<<>>}

----------------------------------------------------------------------------
(* BillingInvoice, BillingInvoiceLine *)

\* The value of a DateTimeField that is null.
Never == -1

InvoiceDecimalFields ==
    {"subtotal", "vat_total", "total", "hours_billed", "hourly_rate", "paid_amount",
     "due_amount"}

LineDecimalFields == {"quantity", "unit_price", "vat_rate", "line_total", "line_vat"}

\* BillingInvoiceLine.save: the row that ends up in the table.
BillingInvoiceLine_save(self) ==
    LET line_total == RMul(self.quantity, self.unit_price)
        line_vat == RPercent(line_total, self.vat_rate)
        inst == [self EXCEPT !.line_total = line_total, !.line_vat = line_vat]
    IN  [f \in DOMAIN inst |-> IF f \in LineDecimalFields THEN Quantize(inst[f]) ELSE inst[f]]

\* PAID only when more than the total was paid.
PaymentStatusStrict(paid_amount, total) ==
    IF ~RLeq(paid_amount, total) THEN "paid"
    ELSE IF ~RLeq(paid_amount, Rat(0)) THEN "partial"
    ELSE "unpaid"

\* The payment status BillingInvoice.save derives from paid_amount and total.
PaymentStatus(paid_amount, total) ==
    IF RLeq(total, paid_amount) THEN "paid"
    ELSE IF ~RLeq(paid_amount, Rat(0)) THEN "partial"
    ELSE "unpaid"

\* A save that stores due_amount as it finds it.
BillingInvoice_save_keeps_due(self) ==
    LET inst == [self EXCEPT !.payment_status = PaymentStatus(self.paid_amount, self.total)]
    IN  [f \in DOMAIN inst |-> IF f \in InvoiceDecimalFields THEN Quantize(inst[f]) ELSE inst[f]]

\* BillingInvoice.save: the row that ends up in the table.
BillingInvoice_save(self) ==
    LET inst == [self EXCEPT !.due_amount = RSub(self.total, self.paid_amount),
                             !.payment_status = PaymentStatus(self.paid_amount, self.total)]
    IN  [f \in DOMAIN inst |-> IF f \in InvoiceDecimalFields THEN Quantize(inst[f]) ELSE inst[f]]

\* A BillingInvoice loaded from its row.
InvoiceFromRow(row) ==
    [f \in DOMAIN row |-> IF f \in InvoiceDecimalFields THEN Rat(row[f]) ELSE row[f]]

\* Sum('ore_lucrate') over the records of a client and period (0 when there is none).
RECURSIVE SumOreLucrate(_)
SumOreLucrate(rows) ==
    IF rows = {} THEN 0
    ELSE LET r == CHOOSE x \in rows : TRUE
         IN  r.ore_lucrate + SumOreLucrate(rows \ {r})

\* Sum('subtotal') over invoices (0 when there is none).
RECURSIVE SumSubtotal(_)
SumSubtotal(rows) ==
    IF rows = {} THEN 0
    ELSE LET r == CHOOSE x \in rows : TRUE
         IN  r.subtotal + SumSubtotal(rows \ {r})

\* existing_invoices: the ISSUED invoices of the client and period.
ExistingInvoices(client_id, p) ==
    {inv \in invoices : inv.client = client_id /\ InPeriod(inv, p) /\ inv.status = "issued"}

\* vat_rate = Decimal('21'), in hundredths.
vat_rate == 2100

\* Decimal(str(float(d))) for a Decimal d.  The amounts here have at most 13
\* significant digits, fewer than the 15 a double keeps and repr gives back, so the
\* Decimal that comes out is d.
ViaFloat(d) == d

\* if subtotal <= already_billed (difference mode)
NothingToBillStrict(subtotal, already_billed) ==
    ~RLeq(already_billed, subtotal)

NothingToBill(subtotal, already_billed) == RLeq(subtotal, already_billed)

\* vat_total = subtotal * (vat_rate / 100); total = subtotal + vat_total
InvoiceTotalsNoVat(subtotal) ==
    [vat_total |-> RPercent(subtotal, Rat(vat_rate)), total |-> subtotal]

InvoiceTotals(subtotal) ==
    LET vat_total == RPercent(subtotal, Rat(vat_rate))
    IN  [vat_total |-> vat_total, total |-> RAdd(subtotal, vat_total)]

\* One entry of lines with the price taken with its VAT.
LinePriceWithVat(quantity, price, vatPercent) ==
    [quantity |-> ViaFloat(quantity),
     price |-> ViaFloat(RAdd(price, RPercent(price, vatPercent))),
     vatPercent |-> ViaFloat(vatPercent)]

\* One entry of lines: quantity, price and vatPercent went through float.
Line(quantity, price, vatPercent) ==
    [quantity |-> ViaFloat(quantity), price |-> ViaFloat(price),
     vatPercent |-> ViaFloat(vatPercent)]

\* The lines of extra_services mode with the subtotal of the first of them.
RECURSIVE ExtraLinesFirstSubtotal(_, _)
ExtraLinesFirstSubtotal(extra_lines, i) ==
    IF i > Len(extra_lines) THEN [lines |-> <<>>, subtotal |-> Rat(0)]
    ELSE LET extra == extra_lines[i]
             rest == ExtraLinesFirstSubtotal(extra_lines, i + 1)
         IN  [lines |-> <<Line(Rat(extra.quantity), Rat(extra.unit_price),
                               Rat(extra.vat_rate))>> \o rest.lines,
              subtotal |-> RMul(Rat(extra.quantity), Rat(extra.unit_price))]

\* The lines and the subtotal of extra_services mode, over extra_lines[i..].
RECURSIVE ExtraLines(_, _)
ExtraLines(extra_lines, i) ==
    IF i > Len(extra_lines) THEN [lines |-> <<>>, subtotal |-> Rat(0)]
    ELSE LET extra == extra_lines[i]
             rest == ExtraLines(extra_lines, i + 1)
             line_subtotal == RMul(Rat(extra.quantity), Rat(extra.unit_price))
         IN  [lines |-> <<Line(Rat(extra.quantity), Rat(extra.unit_price),
                               Rat(extra.vat_rate))>> \o rest.lines,
              subtotal |-> RAdd(line_subtotal, rest.subtotal)]

\* BillingInvoiceLine.objects.create for each of lines.
LineRows(lines, mode) ==
    [i \in 1..Len(lines) |->
        BillingInvoiceLine_save(
            [quantity |-> lines[i].quantity, unit_price |-> lines[i].price,
             vat_rate |-> lines[i].vatPercent,
             line_total |-> RMul(lines[i].quantity, lines[i].price),
             line_vat |-> RPercent(RMul(lines[i].quantity, lines[i].price),
                                   lines[i].vatPercent),
             line_type |-> IF mode = "standard" THEN "standard"
                           ELSE IF mode = "difference" THEN "difference" ELSE "extra"])]

\* The outcomes of the two SmartBill calls and of writing the PDF file: SmartBill
\* answers, answers with a status of 400 or more, or cannot be reached.
IssueOutcomes == {"ok", "http_error", "network_error"}

\* SmartBillError.response_data: the body of the answer, None without an answer.
ResponseData(outcome) == IF outcome = "http_error" THEN "error_body" ELSE "None"

\* The invoice rows are written before SmartBill is asked, outside the transaction.
IssueFailureKeepsRow(invoice, env) ==
    /\ resp' = [status |-> 502, detail |-> "smartbill_error",
                error_data |-> ResponseData(env.issue)]
    /\ invoices' = invoices \cup {invoice}
    /\ UNCHANGED smartbill

\* except SmartBillError around the atomic block, when smartbill.issue_invoice raised.
IssueFailure(invoice, env) ==
    /\ resp' = [status |-> 502, detail |-> "smartbill_error",
                error_data |-> ResponseData(env.issue)]
    /\ UNCHANGED <<invoices, smartbill>>
PdfOutcomes == {"ok", "smartbill_error", "os_error"}

\* The number SmartBill gives its next invoice.
NextNumber == Cardinality(smartbill) + 1

\* What SmartBill keeps of an invoice it issued.
Issued(number, client_id, lines) ==
    [number |-> number, client |-> client_id, products |-> lines]

\* The instance BillingInvoice.objects.create is given, before save.
NewInvoice(number, client_id, data, lines, subtotal, total_hours, hourly_rate) ==
    LET totals == InvoiceTotals(subtotal)
    IN  [number |-> number, client |-> client_id,
         year |-> data.year, month |-> data.month,
         subtotal |-> subtotal, vat_total |-> totals.vat_total,
         total |-> totals.total,
         hours_billed |-> IF data.mode = "standard" THEN total_hours ELSE Rat(0),
         hourly_rate |-> hourly_rate, status |-> "issued",
         payment_status |-> "unpaid", paid_amount |-> Rat(0),
         due_amount |-> Rat(0), pdf_path |-> "",
         last_payment_sync_at |-> Never, last_email_sent_at |-> Never,
         email_sent_to |-> "", email_sent_count |-> 0,
         lines |-> LineRows(lines, data.mode)]

\* The atomic block of issue_invoice, from the lines, subtotal and totals on.
IssueAtomic(client_id, data, lines, subtotal, total_hours, hourly_rate, env) ==
    LET issued == Issued(NextNumber, client_id, lines)
        invoice == NewInvoice(NextNumber, client_id, data, lines, subtotal, total_hours,
                              hourly_rate)
    IN  IF env.issue # "ok"
        THEN IssueFailure(BillingInvoice_save(invoice), env)
        ELSE /\ smartbill' = smartbill \cup {issued}
             /\ IF env.pdf = "os_error"
                THEN Respond(500, "issue_failed") /\ UNCHANGED invoices
                ELSE /\ Respond(201, "invoice_issued")
                     /\ invoices' = invoices \cup
                            {BillingInvoice_save(
                                [invoice EXCEPT !.pdf_path =
                                    IF env.pdf = "ok" THEN "stored" ELSE ""])}

\* The confirmation asked of extra_services requests only.
HoursConfirmedIfExtra(data) ==
    data.confirm_hours_agreed \/ data.mode # "extra_services"

\* data['confirm_hours_agreed']
HoursConfirmed(data) == data.confirm_hours_agreed

issue_invoice(u, data, env) ==
    /\ UNCHANGED <<backend, clients, workerVars, synclogs, emaillogs, now, settings, records>>
    /\ request' = IF data.mode = "difference" THEN <<data>> ELSE <<>>
    /\ IF ~HoursConfirmed(data)
       THEN Respond(400, "hours_not_confirmed") /\ UNCHANGED <<invoices, smartbill>>
       ELSE IF ~env.configured
       THEN Respond(503, "smartbill_not_configured") /\ UNCHANGED <<invoices, smartbill>>
       ELSE IF data.client_id \notin DOMAIN clients
       THEN Respond(404, "client_not_found") /\ UNCHANGED <<invoices, smartbill>>
       ELSE LET p == [year |-> data.year, month |-> data.month]
                total_hours ==
                    Rat(SumOreLucrate({r \in records :
                                        r.client = data.client_id /\ InPeriod(r, p)}))
                hourly_rate == Rat(ClientRow(data.client_id).tarif_orar)
                subtotal == RMul(total_hours, hourly_rate)
                already_billed == Rat(SumSubtotal(ExistingInvoices(data.client_id, p)))
            IN  IF data.mode = "standard"
                THEN IssueAtomic(data.client_id, data,
                                 <<Line(Rat(100), subtotal, Rat(vat_rate))>>,
                                 subtotal, total_hours, hourly_rate, env)
                ELSE IF data.mode = "difference"
                THEN IF NothingToBill(subtotal, already_billed)
                     THEN Respond(400, "no_difference")
                          /\ UNCHANGED <<invoices, smartbill>>
                     ELSE LET difference == RSub(subtotal, already_billed)
                          IN  IssueAtomic(data.client_id, data,
                                          <<Line(Rat(100), difference, Rat(vat_rate))>>,
                                          difference, total_hours, hourly_rate, env)
                ELSE IF data.extra_lines = <<>>
                THEN Respond(400, "extra_lines_required")
                     /\ UNCHANGED <<invoices, smartbill>>
                ELSE LET extra == ExtraLines(data.extra_lines, 1)
                     IN  IssueAtomic(data.client_id, data, extra.lines, extra.subtotal,
                                     total_hours, hourly_rate, env)

\* PATCH billing/invoices/{id}/ with the writable fields of BillingInvoiceSerializer.
InvoicePartialUpdate(u, inv, data) ==
    /\ UNCHANGED <<backend, clients, workerVars, synclogs, emaillogs, now, settings, records, smartbill>>
    /\ request' = <<>>
    /\ inv \in invoices
    /\ LET loaded == InvoiceFromRow(inv)
           inst == [f \in DOMAIN loaded |->
                       IF f \in DOMAIN data
                       THEN (IF f \in InvoiceDecimalFields THEN Rat(data[f]) ELSE data[f])
                       ELSE loaded[f]]
       IN  invoices' = (invoices \ {inv}) \cup {BillingInvoice_save(inst)}
    /\ Respond(200, "invoice_updated")

----------------------------------------------------------------------------
(* BillingSyncViewSet.sync_payments *)

\* SMARTBILL_SERIES, the series of every invoice SmartBill issues for the company.
Series == "ISS"

\* Ticks of the clock in a day: the dates of a query are days, "%Y-%m-%d".
TicksPerDay == 2

\* timedelta(days=90), in days.
LookbackDays == 90

\* strftime("%Y-%m-%d") of a timestamp: its day.
StartDate(ts) == IF ts >= 0 THEN ts \div TicksPerDay ELSE -((-ts + TicksPerDay - 1) \div TicksPerDay)

\* The logs with status SUCCESS and a sync_finished_at.
SuccessLogs == {k \in DOMAIN synclogs : /\ synclogs[k].status = "success"
                                         /\ synclogs[k].sync_finished_at # Never}

\* last_sync: the first of the SUCCESS logs ordered by -sync_finished_at.
LastSync ==
    CHOOSE k \in SuccessLogs :
        \A j \in SuccessLogs : synclogs[j].sync_finished_at <= synclogs[k].sync_finished_at

\* from_date taken from the run that finished last, whatever its status.
FromDateLastFinished ==
    LET finished == {k \in DOMAIN synclogs : synclogs[k].sync_finished_at # Never}
    IN  IF finished # {}
        THEN synclogs[CHOOSE k \in finished :
                         \A j \in finished :
                             synclogs[j].sync_finished_at <= synclogs[k].sync_finished_at
                     ].sync_finished_at
        ELSE now - LookbackDays * TicksPerDay

\* from_date: where the query window starts.
FromDate ==
    IF SuccessLogs # {} THEN synclogs[LastSync].sync_finished_at
    ELSE now - LookbackDays * TicksPerDay

\* A paidAmount for which Decimal(str(...)) raises.
NotANumber == <<0, 0>>

\* BillingInvoice.objects.filter(smartbill_series=series, smartbill_number=number)
MatchingInvoices(invs, payment) ==
    {inv \in invs : payment.invoiceSeries = Series /\ inv.number = payment.invoiceNumber}

\* The payment added to what was paid before.
ApplyPaymentIncrement(inv, payment, ts) ==
    BillingInvoice_save(
        [InvoiceFromRow(inv) EXCEPT !.paid_amount = RAdd(Rat(inv.paid_amount), payment.paidAmount),
                                    !.last_payment_sync_at = ts])

\* invoice.paid_amount = paid_amount; invoice.last_payment_sync_at = now; invoice.save()
ApplyPayment(inv, payment, ts) ==
    BillingInvoice_save(
        [InvoiceFromRow(inv) EXCEPT !.paid_amount = payment.paidAmount,
                                    !.last_payment_sync_at = ts])

\* The loop over payments[i..]: the table it leaves, invoices_updated and errors.
RECURSIVE SyncLoop(_, _, _, _, _, _)
SyncLoop(payments, i, ts, invs, invoices_updated, errors) ==
    IF i > Len(payments)
    THEN [invoices |-> invs, invoices_updated |-> invoices_updated, errors |-> errors]
    ELSE LET payment == payments[i]
             matching == MatchingInvoices(invs, payment)
         IN  IF matching = {}
             THEN SyncLoop(payments, i + 1, ts, invs, invoices_updated, errors)
             ELSE IF payment.paidAmount = NotANumber
             THEN SyncLoop(payments, i + 1, ts, invs, invoices_updated, errors + 1)
             ELSE LET invoice == CHOOSE inv \in matching : TRUE
                  IN  SyncLoop(payments, i + 1, ts,
                               (invs \ {invoice}) \cup {ApplyPayment(invoice, payment, ts)},
                               invoices_updated + 1, errors)

\* BillingSyncLog.objects.create(...): the log of a run that starts now, with the
\* dates get_payments sends as startDate and endDate.
NewSyncLog ==
    [requested_from_ts |-> FromDate, requested_to_ts |-> now,
     startDate |-> StartDate(FromDate), endDate |-> StartDate(now),
     sync_finished_at |-> Never, status |-> "in_progress", result_counts |-> <<>>]

\* sync_payments from the answer of SmartBill on, for the run of log k of logs,
\* finishing at time ts: the tables it leaves and the response.
SyncFinish(logs, k, outcome, ts) ==
    IF outcome.result = "payments"
    THEN LET done == SyncLoop(outcome.payments, 1, logs[k].requested_to_ts, invoices, 0, 0)
             counts == [payments_found |-> Len(outcome.payments),
                        invoices_updated |-> done.invoices_updated,
                        errors_count |-> done.errors]
         IN  [invoices |-> done.invoices,
              synclogs |-> [logs EXCEPT ![k] =
                               [@ EXCEPT !.sync_finished_at = ts, !.status = "success",
                                         !.result_counts = counts]],
              request |-> outcome.payments,
              resp |-> [status |-> 200, detail |-> "sync_done", sync_log_id |-> k,
                        invoices_updated |-> done.invoices_updated,
                        payments_found |-> Len(outcome.payments),
                        errors |-> done.errors]]
    ELSE [invoices |-> invoices,
          synclogs |-> [logs EXCEPT ![k] =
                           [@ EXCEPT !.sync_finished_at = ts, !.status = "failure"]],
          request |-> <<>>,
          resp |-> IF outcome.result = "smartbill_error"
                   THEN [status |-> 502, detail |-> "smartbill_error"]
                   ELSE [status |-> 500, detail |-> "sync_failed"]]

\* sync_payments, when no other request is served before SmartBill answers.
sync_payments(u, configured, outcome) ==
    /\ UNCHANGED <<backend, clients, workerVars, settings, records, smartbill, emaillogs, now>>
    /\ IF ~configured
       THEN /\ Respond(503, "smartbill_not_configured")
            /\ request' = <<>>
            /\ UNCHANGED <<invoices, synclogs>>
       ELSE LET logs == Append(synclogs, NewSyncLog)
                finish == SyncFinish(logs, Len(logs), outcome, now)
            IN  /\ invoices' = finish.invoices
                /\ synclogs' = finish.synclogs
                /\ request' = finish.request
                /\ resp' = finish.resp

\* sync_payments up to the request it sends to SmartBill.
sync_payments_begin(u, configured) ==
    /\ UNCHANGED <<backend, clients, workerVars, settings, records, invoices, smartbill, emaillogs, now>>
    /\ request' = <<>>
    /\ IF ~configured
       THEN Respond(503, "smartbill_not_configured") /\ UNCHANGED synclogs
       ELSE /\ synclogs' = Append(synclogs, NewSyncLog)
            /\ Respond(0, "waiting_for_smartbill")

\* sync_payments from the answer of SmartBill on, for the run of log k.
sync_payments_end(k, outcome) ==
    /\ UNCHANGED <<backend, clients, workerVars, settings, records, smartbill, emaillogs, now>>
    /\ k \in DOMAIN synclogs
    /\ synclogs[k].status = "in_progress"
    /\ LET finish == SyncFinish(synclogs, k, outcome, now)
       IN  /\ invoices' = finish.invoices
           /\ synclogs' = finish.synclogs
           /\ request' = finish.request
           /\ resp' = finish.resp

\* POST billing/invoices/{id}/send-email/: email_to is "" when the body has none
\* (Client has no email field to fall back on), file_exists is whether the PDF is
\* on disk, sent whether the mail went out.
send_email(u, inv, email_to, file_exists, sent) ==
    /\ UNCHANGED <<backend, clients, workerVars, settings, records, smartbill, synclogs, now>>
    /\ request' = <<>>
    /\ inv \in invoices
    /\ IF email_to = ""
       THEN Respond(400, "no_email_address") /\ UNCHANGED <<invoices, emaillogs>>
       ELSE IF inv.pdf_path = ""
       THEN Respond(400, "pdf_not_available") /\ UNCHANGED <<invoices, emaillogs>>
       ELSE IF ~file_exists
       THEN Respond(404, "pdf_file_missing") /\ UNCHANGED <<invoices, emaillogs>>
       ELSE IF sent
       THEN /\ emaillogs' = Append(emaillogs, [invoice |-> inv.number, sent_to |-> email_to,
                                              status |-> "sent"])
            /\ invoices' = (invoices \ {inv}) \cup
                   {BillingInvoice_save(
                       [InvoiceFromRow(inv) EXCEPT !.last_email_sent_at = now,
                                                   !.email_sent_to = email_to,
                                                   !.email_sent_count = @ + 1])}
            /\ Respond(200, "email_sent")
       ELSE /\ emaillogs' = Append(emaillogs, [invoice |-> inv.number, sent_to |-> email_to,
                                              status |-> "failed"])
            /\ UNCHANGED invoices
            /\ Respond(500, "email_failed")

\* Time passes.
Tick ==
    /\ now' = now + 1
    /\ UNCHANGED <<backend, clients, workerVars, settings, records, invoices, smartbill, synclogs, emaillogs,
                   resp, request>>

----------------------------------------------------------------------------
(* Requests *)

\* Largest number of rows in one import request of the import specification.
MaxRows == 4

\* Largest number of rows in one import request of the other specifications.
FewRows == 2

\* Kinds of preview rows: 1 a matched worker; 2 a worker that no longer exists;
\* 3 a second matched worker; 4 a row the preview marked invalid; 5 worker 1 listed
\* once more, with other hours.
RowKind(k) ==
    CASE k = 1 -> [is_valid |-> TRUE, worker_id |-> 1, client_id |-> 1,
                   ore_lucrate |-> 16800, salariu_brut |-> 500000, cam |-> 12500]
      [] k = 2 -> [is_valid |-> TRUE, worker_id |-> MissingWorker, client_id |-> 1,
                   ore_lucrate |-> 16800, salariu_brut |-> 500000, cam |-> 12500]
      [] k = 3 -> [is_valid |-> TRUE, worker_id |-> 2, client_id |-> 2,
                   ore_lucrate |-> 16750, salariu_brut |-> 300000, cam |-> 6750]
      [] k = 5 -> [is_valid |-> TRUE, worker_id |-> 1, client_id |-> 1,
                   ore_lucrate |-> 800, salariu_brut |-> 25000, cam |-> 625]
      [] OTHER -> [is_valid |-> FALSE, worker_id |-> MissingWorker, client_id |-> 1,
                   ore_lucrate |-> 0, salariu_brut |-> 0, cam |-> 0]

\* The request body with a rows of worker 1, then b rows of kind 2, c of kind 3 and
\* d of kind 4.
RowsOf(a, b, c, d) ==
    [i \in 1..(a + b + c + d) |->
        RowKind(IF i <= a THEN (IF i = 1 THEN 1 ELSE 5)
                ELSE IF i <= a + b THEN 2
                ELSE IF i <= a + b + c THEN 3
                ELSE 4)]

\* Request bodies of process_import with at most max rows.
ImportRequestsUpTo(max) ==
    {RowsOf(q[1], q[2], q[3], q[4]) :
        q \in {x \in (0..2) \X (0..max) \X (0..1) \X (0..1) :
                  x[1] + x[2] + x[3] + x[4] <= max}}

ImportRequests == ImportRequestsUpTo(MaxRows)

FewImportRequests == ImportRequestsUpTo(FewRows)

Nov == [year |-> 2024, month |-> 11]

Dec == [year |-> 2024, month |-> 12]

\* Request bodies of record create and PUT.
RecordData ==
    {[worker |-> 1, client |-> 1, year |-> 2024, month |-> 12,
      ore_lucrate |-> 16750, salariu_brut |-> 300000, cam |-> 6750,
      tarif_orar |-> 2525, cost_cazare |-> 0, cost_masa |-> 0,
      cost_transport |-> 1, cota_indirecte |-> 5001, cost_concediu |-> 0,
      is_validated |-> FALSE]}

\* Request bodies of record PATCH.
RecordPatches ==
    {[is_validated |-> TRUE], [is_validated |-> FALSE]}

\* Request bodies of settings create and PUT.
SettingsData ==
    {[year |-> 2024, month |-> 12, cheltuieli_indirecte |-> 10002, cost_concediu |-> 5000],
     [year |-> 2024, month |-> 12, cheltuieli_indirecte |-> 0, cost_concediu |-> 0]}

\* Request bodies of settings PATCH.
SettingsPatches ==
    {[is_locked |-> FALSE]}

----------------------------------------------------------------------------
(* Specification of the EcoFin endpoints *)

Init ==
    /\ backend \in Backends
    /\ clients = ClientTable
    /\ workers = {}
    /\ activity = <<>>
    /\ previous_state = <<>>
    /\ saves = <<>>
    /\ settings = {}
    /\ records = {}
    /\ invoices = {}
    /\ smartbill = {}
    /\ synclogs = <<>>
    /\ emaillogs = <<>>
    /\ now = 0
    /\ resp = [status |-> 0, detail |-> "none"]
    /\ request = <<>>

DoRecordCreate == \E u \in Users, data \in RecordData : RecordCreate(u, data)

DoRecordUpdate == \E u \in Users, r \in records, data \in RecordData : RecordUpdate(u, r, data, FALSE)

DoRecordPartialUpdate ==
    \E u \in Users, r \in records, data \in RecordPatches : RecordUpdate(u, r, data, TRUE)

DoRecordDestroy == \E u \in Users, r \in records : RecordDestroy(u, r)

DoValidateMonth == \E u \in Users, p \in Periods : validate_month(u, p)

DoSettingsCreate == \E u \in Users, data \in SettingsData : SettingsCreate(u, data)

DoSettingsUpdate ==
    \E u \in Users, s \in settings, data \in SettingsData : SettingsUpdate(u, s, data, FALSE)

DoSettingsPartialUpdate ==
    \E u \in Users, s \in settings, data \in SettingsPatches : SettingsUpdate(u, s, data, TRUE)

DoSettingsDestroy == \E u \in Users, s \in settings : SettingsDestroy(u, s)

DoProcessImport ==
    \E u \in {Manager, Expert}, p \in Periods :
        \E rows \in BodiesFor(u, p, FewImportRequests) : process_import(u, p, rows)

Next ==
    \/ DoRecordCreate
    \/ DoRecordUpdate
    \/ DoRecordPartialUpdate
    \/ DoRecordDestroy
    \/ DoValidateMonth
    \/ DoSettingsCreate
    \/ DoSettingsUpdate
    \/ DoSettingsPartialUpdate
    \/ DoSettingsDestroy
    \/ DoProcessImport

Spec == Init /\ [][Next]_vars

----------------------------------------------------------------------------
(* Specification of the import: the settings of December 2024 exist and requests
   of up to MaxRows rows arrive, between month validations *)

ImportSettings ==
    [year |-> 2024, month |-> 12, cheltuieli_indirecte |-> 10002, cost_concediu |-> 5000,
     is_locked |-> FALSE]

InitImport ==
    /\ backend \in Backends
    /\ clients = ClientTable
    /\ workers = {}
    /\ activity = <<>>
    /\ previous_state = <<>>
    /\ saves = <<>>
    /\ settings = {ImportSettings}
    /\ records = {}
    /\ invoices = {}
    /\ smartbill = {}
    /\ synclogs = <<>>
    /\ emaillogs = <<>>
    /\ now = 0
    /\ resp = [status |-> 0, detail |-> "none"]
    /\ request = <<>>

DoProcessImportMany ==
    \E u \in {Manager, Expert}, p \in Periods :
        \E rows \in BodiesFor(u, p, ImportRequests) : process_import(u, p, rows)

DoUpload == \E u \in {Manager, Expert}, p \in Periods : upload(u, p)

NextImport ==
    \/ DoProcessImportMany
    \/ DoValidateMonth
    \/ DoUpload

SpecImport == InitImport /\ [][NextImport]_vars

----------------------------------------------------------------------------
(* Specification of the saves of one record: worker 2 at client 2 in December 2024,
   written through the record endpoints and by imports *)

SaveSettings ==
    [year |-> 2024, month |-> 12, cheltuieli_indirecte |-> 10001, cost_concediu |-> 5000,
     is_locked |-> FALSE]

\* Request bodies of record create and PUT.
SaveData ==
    {[worker |-> 2, client |-> 2, year |-> 2024, month |-> 12,
      salariu_brut |-> 500000, cam |-> 12500, ore_lucrate |-> 16800, tarif_orar |-> 2500,
      cost_cazare |-> 50000, cost_masa |-> 30000, cost_transport |-> 20000,
      cota_indirecte |-> 10000, cost_concediu |-> 5000, is_validated |-> FALSE],
     [worker |-> 2, client |-> 2, year |-> 2024, month |-> 12,
      salariu_brut |-> 500000, cam |-> 12500, ore_lucrate |-> 16750, tarif_orar |-> 2525,
      cost_cazare |-> 50000, cost_masa |-> 30000, cost_transport |-> 20000,
      cota_indirecte |-> 10000, cost_concediu |-> 5000, is_validated |-> FALSE],
     [worker |-> 2, client |-> 2, year |-> 2024, month |-> 12,
      salariu_brut |-> 300000, cam |-> 6750, ore_lucrate |-> 16750, tarif_orar |-> 2525,
      cost_cazare |-> 0, cost_masa |-> 0, cost_transport |-> 1,
      cota_indirecte |-> 0, cost_concediu |-> 0, is_validated |-> FALSE],
     [worker |-> 2, client |-> 2, year |-> 2024, month |-> 12,
      salariu_brut |-> 300000, cam |-> 6750, ore_lucrate |-> 16800, tarif_orar |-> 2500,
      cost_cazare |-> 0, cost_masa |-> 0, cost_transport |-> 1,
      cota_indirecte |-> 0, cost_concediu |-> 0, is_validated |-> TRUE]}

\* Request bodies of record PATCH.
SavePatches ==
    {[is_validated |-> TRUE],
     [is_validated |-> FALSE],
     [ore_lucrate |-> 16725],
     [ore_lucrate |-> 16725, is_validated |-> TRUE]}

\* Request bodies of process_import.
SaveImportRequests == {<<RowKind(3)>>, <<RowKind(2), RowKind(3)>>}

InitSave ==
    /\ backend \in Backends
    /\ clients = ClientTable
    /\ workers = {}
    /\ activity = <<>>
    /\ previous_state = <<>>
    /\ saves = <<>>
    /\ settings = {SaveSettings}
    /\ records = {}
    /\ invoices = {}
    /\ smartbill = {}
    /\ synclogs = <<>>
    /\ emaillogs = <<>>
    /\ now = 0
    /\ resp = [status |-> 0, detail |-> "none"]
    /\ request = <<>>

DoSaveCreate == \E u \in Users, data \in SaveData : RecordCreate(u, data)

DoSaveUpdate == \E u \in Users, r \in records, data \in SaveData : RecordUpdate(u, r, data, FALSE)

DoSavePartialUpdate ==
    \E u \in Users, r \in records, data \in SavePatches : RecordUpdate(u, r, data, TRUE)

DoSaveImport == \E rows \in SaveImportRequests : process_import(Manager, Dec, rows)

NextSave ==
    \/ DoSaveCreate
    \/ DoSaveUpdate
    \/ DoSavePartialUpdate
    \/ DoRecordDestroy
    \/ DoSaveImport

SpecSave == InitSave /\ [][NextSave]_vars

----------------------------------------------------------------------------
(* Issuing invoices for a month whose hours are recorded *)

\* The most invoices SmartBill is asked for.
MaxInvoices == 2

\* A record body for a worker with hours and nothing else.
HoursData(worker, client, ore_lucrate) ==
    [worker |-> worker, client |-> client, year |-> 2024, month |-> 12,
     ore_lucrate |-> ore_lucrate, salariu_brut |-> 0, cam |-> 0,
     tarif_orar |-> ClientRow(client).tarif_orar, cost_cazare |-> 0, cost_masa |-> 0,
     cost_transport |-> 0, cota_indirecte |-> 0, cost_concediu |-> 0,
     is_validated |-> FALSE]

\* 200 hours for client 1 (rate 30) and 167.25 hours for client 2 (rate 25.25).
BilledRecordData == {HoursData(1, 1, 20000), HoursData(2, 2, 16725)}

\* Hours that arrive later: 50 more for client 1.
LateRecordData == {HoursData(2, 1, 5000)}

IssueRequest(client_id, mode, confirm, extra_lines) ==
    [client_id |-> client_id, year |-> 2024, month |-> 12,
     confirm_hours_agreed |-> confirm, mode |-> mode, extra_lines |-> extra_lines]

\* 1.5 units at 33.35 with 19% VAT.
ExtraLine == [quantity |-> 150, unit_price |-> 3335, vat_rate |-> 1900]

\* 2 units at 10.00 with 21% VAT.
SecondExtraLine == [quantity |-> 200, unit_price |-> 1000, vat_rate |-> 2100]

IssueRequests ==
    {IssueRequest(c, mode, TRUE, <<>>) : c \in Clients, mode \in {"standard", "difference"}}
    \cup {IssueRequest(1, "extra_services", TRUE, <<ExtraLine, SecondExtraLine>>),
          IssueRequest(1, "extra_services", TRUE, <<>>),
          IssueRequest(1, "standard", FALSE, <<>>),
          IssueRequest(1, "difference", FALSE, <<>>),
          IssueRequest(1, "extra_services", FALSE, <<ExtraLine, SecondExtraLine>>),
          IssueRequest(MissingClient, "difference", TRUE, <<>>)}

Env(configured, issue, pdf) == [configured |-> configured, issue |-> issue, pdf |-> pdf]

\* SmartBill configured and answering both calls, and the PDF written.
EnvOk == Env(TRUE, "ok", "ok")

\* SmartBill not configured; configured and failing to issue; issuing, with each
\* outcome of the PDF.
Envs ==
    {Env(FALSE, "network_error", "smartbill_error")}
    \cup {Env(TRUE, issue, "smartbill_error") : issue \in IssueOutcomes \ {"ok"}}
    \cup {Env(TRUE, "ok", pdf) : pdf \in PdfOutcomes}

\* The requests that are sent: each body while SmartBill works and while it
\* answers with an error, and the standard invoice of client 1 and the unconfirmed
\* requests under each failure (the handling of the other failures is the same in
\* every mode).
IssueCases ==
    {<<data, env>> : data \in IssueRequests, env \in {EnvOk, Env(TRUE, "http_error", "smartbill_error")}}
    \cup {<<IssueRequest(1, "standard", TRUE, <<>>), env>> : env \in Envs}
    \cup {<<data, env>> : data \in {d \in IssueRequests : ~d.confirm_hours_agreed}, env \in Envs}

InvoicePatches == {[status |-> "cancelled"]}

InitBilling ==
    /\ backend \in Backends
    /\ clients = ClientTable
    /\ workers = {}
    /\ activity = <<>>
    /\ previous_state = <<>>
    /\ saves = <<>>
    /\ settings = {}
    /\ records = {EcoFinProcessedRecord_save(SetAttrs(NewInstance, d)) : d \in BilledRecordData}
    /\ invoices = {}
    /\ smartbill = {}
    /\ synclogs = <<>>
    /\ emaillogs = <<>>
    /\ now = 0
    /\ resp = [status |-> 0, detail |-> "none"]
    /\ request = <<>>

DoIssueInvoice ==
    /\ Cardinality(smartbill) < MaxInvoices
    /\ \E case \in IssueCases : issue_invoice(Expert, case[1], case[2])

DoInvoicePartialUpdate ==
    \E inv \in invoices, data \in InvoicePatches : InvoicePartialUpdate(Expert, inv, data)

DoLateRecordCreate == \E data \in LateRecordData : RecordCreate(Manager, data)

NextBilling ==
    \/ DoIssueInvoice
    \/ DoInvoicePartialUpdate
    \/ DoLateRecordCreate

SpecBilling == InitBilling /\ [][NextBilling]_vars

----------------------------------------------------------------------------
(* Payments: invoices are issued, paid in SmartBill and synchronised *)

\* The most runs of sync_payments and mails.
MaxSyncs == 2
MaxEmails == 1

\* Client 1 has no hours in the month, client 2 has 167.25.
PaidRecordData == {HoursData(2, 2, 16725)}

\* The standard invoice of a client for the month, as issue_invoice stores it when
\* SmartBill issues it under the number and the PDF is written.
StandardInvoice(number, client_id, recs) ==
    LET data == IssueRequest(client_id, "standard", TRUE, <<>>)
        total_hours == Rat(SumOreLucrate({r \in recs : r.client = client_id}))
        hourly_rate == Rat(ClientRow(client_id).tarif_orar)
        subtotal == RMul(total_hours, hourly_rate)
        lines == <<Line(Rat(100), subtotal, Rat(vat_rate))>>
    IN  [row |-> BillingInvoice_save(
                    [NewInvoice(number, client_id, data, lines, subtotal, total_hours,
                                hourly_rate) EXCEPT !.pdf_path = "stored"]),
         issued |-> Issued(number, client_id, lines)]

Payment(series, number, paidAmount) ==
    [invoiceSeries |-> series, invoiceNumber |-> number, paidAmount |-> paidAmount]

\* What SmartBill lists for invoice 1: a part of 5109.91 twice, a payment of an
\* invoice number that no local invoice has and then all of 5109.91, half a cent
\* less than 5109.91, a payment of another series and an amount that is no number.
PaymentLists ==
    {<<Payment(Series, 1, Rat(100000)), Payment(Series, 1, Rat(100000))>>,
     <<Payment(Series, 9, Rat(100000)), Payment(Series, 1, Rat(510991))>>,
     <<Payment(Series, 1, <<1021981, 2>>)>>,
     <<Payment("OTHER", 1, Rat(100000)), Payment(Series, 1, NotANumber)>>}

SyncOutcomes ==
    {[result |-> "payments", payments |-> payments] : payments \in PaymentLists}
    \cup {[result |-> r, payments |-> <<>>] : r \in {"smartbill_error", "error"}}

PaidPatches == {[paid_amount |-> 100000]}

\* The month's standard invoices have been issued: number 1 for client 2
\* (4223.06 + 886.84 = 5109.91), number 2 for client 1 (0.00).
InitPayments ==
    /\ backend \in Backends
    /\ clients = ClientTable
    /\ workers = {}
    /\ activity = <<>>
    /\ previous_state = <<>>
    /\ saves = <<>>
    /\ settings = {}
    /\ records = {EcoFinProcessedRecord_save(SetAttrs(NewInstance, d)) : d \in PaidRecordData}
    /\ invoices = {StandardInvoice(1, 2, records).row, StandardInvoice(2, 1, records).row}
    /\ smartbill = {StandardInvoice(1, 2, records).issued, StandardInvoice(2, 1, records).issued}
    /\ synclogs = <<>>
    /\ emaillogs = <<>>
    /\ now = 0
    /\ resp = [status |-> 0, detail |-> "none"]
    /\ request = <<>>

DoSyncPayments ==
    /\ Len(synclogs) < MaxSyncs
    /\ \E configured \in BOOLEAN, outcome \in SyncOutcomes :
          sync_payments(Expert, configured, outcome)

DoSendEmail ==
    /\ Len(emaillogs) < MaxEmails
    /\ \E inv \in invoices, email_to \in {"", "client@example.com"},
          file_exists \in BOOLEAN, sent \in BOOLEAN :
          send_email(Expert, inv, email_to, file_exists, sent)

DoPaidPartialUpdate ==
    \E inv \in invoices, data \in PaidPatches : InvoicePartialUpdate(Expert, inv, data)

NextPayments ==
    \/ DoSyncPayments
    \/ DoSendEmail
    \/ DoPaidPartialUpdate

SpecPayments == InitPayments /\ [][NextPayments]_vars

----------------------------------------------------------------------------
(* Specification of the query window of sync_payments: runs that overlap in time *)

\* Largest number of sync runs.
MaxRuns == 3

\* Last tick of the clock.
MaxTime == 2

\* What SmartBill answers to a run: no payment in the window, or an error.
WindowOutcomes ==
    {[result |-> r, payments |-> <<>>] : r \in {"payments", "smartbill_error", "error"}}

InitWindow ==
    /\ backend = "postgresql"
    /\ clients = ClientTable
    /\ workers = {}
    /\ activity = <<>>
    /\ previous_state = <<>>
    /\ saves = <<>>
    /\ settings = {}
    /\ records = {}
    /\ invoices = {}
    /\ smartbill = {}
    /\ synclogs = <<>>
    /\ emaillogs = <<>>
    /\ now = 0
    /\ resp = [status |-> 0, detail |-> "none"]
    /\ request = <<>>

DoTick == now < MaxTime /\ Tick

DoSyncBegin ==
    /\ Len(synclogs) < MaxRuns
    /\ \E configured \in BOOLEAN : sync_payments_begin(Expert, configured)

DoSyncEnd ==
    \E k \in DOMAIN synclogs, outcome \in WindowOutcomes : sync_payments_end(k, outcome)

NextWindow ==
    \/ DoTick
    \/ DoSyncBegin
    \/ DoSyncEnd

SpecWindow == InitWindow /\ [][NextWindow]_vars

----------------------------------------------------------------------------
(* Specification of the delivery of one payment: SmartBill lists it to every run
   whose dates include its day *)

\* The day SmartBill registered the payment of invoice 1.
EventDay == 0

\* The payment of invoice 1: all of 5109.91.
EventPayment == Payment(Series, 1, Rat(510991))

\* What get_payments returns to the run of a log: the payment when its day is
\* within startDate .. endDate.  raises: applying it raises in this run, which the
\* loop meets as an amount that Decimal(str(...)) refuses.
Delivered(log, raises) ==
    IF log.startDate <= EventDay /\ EventDay <= log.endDate
    THEN <<IF raises THEN [EventPayment EXCEPT !.paidAmount = NotANumber] ELSE EventPayment>>
    ELSE <<>>

InitDelivery == InitPayments /\ backend = "postgresql"

DoDeliveryTick == now < MaxTime /\ Tick

DoDeliverySync ==
    /\ Len(synclogs) < MaxRuns
    /\ \E raises \in BOOLEAN :
          sync_payments(Expert, TRUE,
                        [result |-> "payments", payments |-> Delivered(NewSyncLog, raises)])

DoDeliveryFailure ==
    /\ Len(synclogs) < MaxRuns
    /\ \E configured \in BOOLEAN, r \in {"smartbill_error", "error"} :
          sync_payments(Expert, configured, [result |-> r, payments |-> <<>>])

NextDelivery ==
    \/ DoDeliveryTick
    \/ DoDeliverySync
    \/ DoDeliveryFailure

SpecDelivery == InitDelivery /\ [][NextDelivery]_vars

----------------------------------------------------------------------------
(* The iss application: users and ClientViewSet *)

\* A user of a request: its id, the role of its profile, and whether the request
\* carried valid credentials.
IssUser(id, role) == [id |-> id, role |-> role, is_authenticated |-> TRUE]

\* AnonymousUser: a request with no credentials.
Anonymous == [id |-> 0, role |-> "None", is_authenticated |-> FALSE]

AgentA == IssUser(1, "Agent")

AgentB == IssUser(2, "Agent")

ExpertUser == IssUser(3, "Expert")

ManagementUser == IssUser(4, "Management")

AdminUser == IssUser(5, "Admin")

IssUsers == {Anonymous, AgentA, AgentB, ExpertUser, ManagementUser, AdminUser}

\* The answer to a request without credentials that a permission class refuses.
NotAuthenticated == Respond(401, "not_authenticated")

\* permissions.SAFE_METHODS
SAFE_METHODS == {"GET", "HEAD", "OPTIONS"}

\* A check of the role that lets every authenticated user write.
IsAuthenticatedOnly(u, method) == u.is_authenticated

\* IsManagementOrReadOnly.has_permission
IsManagementOrReadOnly(u, method) ==
    IF ~u.is_authenticated THEN FALSE
    ELSE IF method \in SAFE_METHODS THEN TRUE
    ELSE u.role \in {"Management", "Admin"}

\* APIView.permission_denied: 401 without credentials, 403 with them.
Refuse(u) == IF u.is_authenticated THEN PermissionDenied ELSE NotAuthenticated

\* The id the database gives the next Client.
NextClientId ==
    1 + (CHOOSE m \in DOMAIN clients \cup {0} : \A c \in DOMAIN clients \cup {0} : c <= m)

\* The request to /api/clients/ being answered.
ClientRequest(u, method) == [path |-> "clients", method |-> method, user |-> u]

\* GET /api/clients/ and /api/clients/{id}/
ClientRead(u) ==
    /\ UNCHANGED <<backend, clients, workerVars, synclogs, emaillogs, now, settings,
                   records, invoices, smartbill>>
    /\ request' = <<ClientRequest(u, "GET")>>
    /\ IF ~IsManagementOrReadOnly(u, "GET") THEN Refuse(u)
       ELSE resp' = [status |-> 200, detail |-> "clients", ids |-> DOMAIN clients]

\* POST /api/clients/
ClientCreate(u, data) ==
    /\ UNCHANGED <<backend, workerVars, synclogs, emaillogs, now, settings, records,
                   invoices, smartbill>>
    /\ request' = <<ClientRequest(u, "POST")>>
    /\ IF ~IsManagementOrReadOnly(u, "POST") THEN Refuse(u) /\ UNCHANGED clients
       ELSE /\ clients' = [c \in DOMAIN clients \cup {NextClientId} |->
                              IF c \in DOMAIN clients THEN clients[c] ELSE data]
            /\ Respond(201, "client_created")

\* A change of a client that is carried over to the records made from it.
ClientUpdateCascading(u, c, data) ==
    /\ UNCHANGED <<backend, workerVars, synclogs, emaillogs, now, settings, invoices,
                   smartbill>>
    /\ request' = <<ClientRequest(u, "PATCH")>>
    /\ IF ~IsManagementOrReadOnly(u, "PATCH") THEN Refuse(u) /\ UNCHANGED <<clients, records>>
       ELSE IF c \notin DOMAIN clients
       THEN Respond(404, "not_found") /\ UNCHANGED <<clients, records>>
       ELSE /\ clients' = [clients EXCEPT ![c] =
                              [f \in DOMAIN @ |-> IF f \in DOMAIN data THEN data[f] ELSE @[f]]]
            /\ records' = {IF r.client = c /\ "tarif_orar" \in DOMAIN data
                           THEN [r EXCEPT !.tarif_orar = data.tarif_orar] ELSE r :
                           r \in records}
            /\ Respond(200, "client_updated")

\* PUT and PATCH /api/clients/{id}/
ClientUpdate(u, c, data) ==
    /\ UNCHANGED <<backend, workerVars, synclogs, emaillogs, now, settings, records,
                   invoices, smartbill>>
    /\ request' = <<ClientRequest(u, "PATCH")>>
    /\ IF ~IsManagementOrReadOnly(u, "PATCH") THEN Refuse(u) /\ UNCHANGED clients
       ELSE IF c \notin DOMAIN clients
       THEN Respond(404, "not_found") /\ UNCHANGED clients
       ELSE /\ clients' = [clients EXCEPT ![c] =
                              [f \in DOMAIN @ |-> IF f \in DOMAIN data THEN data[f] ELSE @[f]]]
            /\ Respond(200, "client_updated")

\* DELETE /api/clients/{id}/: BillingInvoice.client is PROTECT, the client of a
\* record is CASCADE, Worker.client is SET_NULL.
ClientDestroy(u, c) ==
    /\ UNCHANGED <<backend, activity, previous_state, saves, synclogs, emaillogs, now,
                   settings, invoices, smartbill>>
    /\ request' = <<ClientRequest(u, "DELETE")>>
    /\ IF ~IsManagementOrReadOnly(u, "DELETE")
       THEN Refuse(u) /\ UNCHANGED <<clients, records, workers>>
       ELSE IF c \notin DOMAIN clients
       THEN Respond(404, "not_found") /\ UNCHANGED <<clients, records, workers>>
       ELSE IF \E inv \in invoices : inv.client = c
       THEN Respond(500, "protected") /\ UNCHANGED <<clients, records, workers>>
       ELSE /\ clients' = [k \in DOMAIN clients \ {c} |-> clients[k]]
            /\ records' = {r \in records : r.client # c}
            /\ workers' = {IF w.client = c THEN [w EXCEPT !.client = 0] ELSE w : w \in workers}
            /\ Respond(204, "client_deleted")

----------------------------------------------------------------------------
(* Specification of the client endpoints, with records and invoices made before *)

\* Largest number of clients.
MaxClients == 3

\* Largest number of invoices.
MaxClientInvoices == 3

\* Bodies of POST /api/clients/.
NewClients ==
    {[tarif_orar |-> 2000, cazare_cost |-> 0, masa_cost |-> 0, transport_cost |-> 0]}

\* Bodies of PATCH /api/clients/{id}/: a new tariff and new costs.
ClientPatches ==
    {[tarif_orar |-> 3000, cazare_cost |-> 100, masa_cost |-> 200, transport_cost |-> 300]}

\* Body of a PATCH of a record: 100 hours.
HoursPatch == [ore_lucrate |-> 10000]

InitClients == InitPayments

DoClientRead == \E u \in IssUsers : ClientRead(u)

DoClientCreate ==
    /\ NextClientId <= MaxClients
    /\ \E u \in IssUsers, data \in NewClients : ClientCreate(u, data)

DoClientUpdate ==
    \E u \in IssUsers, c \in DOMAIN clients \cup {MissingClient}, data \in ClientPatches :
        ClientUpdate(u, c, data)

DoClientDestroy ==
    \E u \in IssUsers, c \in DOMAIN clients \cup {MissingClient} : ClientDestroy(u, c)

DoHoursPatch == \E r \in records : RecordUpdate(Manager, r, HoursPatch, TRUE)

DoIssueDifference ==
    /\ Cardinality(smartbill) < MaxClientInvoices
    /\ issue_invoice(Expert, IssueRequest(2, "difference", TRUE, <<>>), EnvOk)

NextClients ==
    \/ DoClientRead
    \/ DoClientCreate
    \/ DoClientUpdate
    \/ DoClientDestroy
    \/ DoHoursPatch
    \/ DoIssueDifference

SpecClients == InitClients /\ [][NextClients]_vars

----------------------------------------------------------------------------
(* The iss application: WorkerViewSet and the signals of Worker *)

\* WorkerStatus: the status a new worker gets and a later one.
AVIZ_SOLICITAT == "Aviz solicitat"

VIZA_OBTINUTA == "Viza obtinuta"

WorkerStatuses == {AVIZ_SOLICITAT, VIZA_OBTINUTA}

\* A permission that lets every authenticated user delete.
AgentCanDelete(u, method) == u.is_authenticated

\* AgentCannotDelete.has_permission
AgentCannotDelete(u, method) ==
    IF ~u.is_authenticated THEN FALSE
    ELSE IF method # "DELETE" THEN TRUE
    ELSE u.role # "Agent"

\* A queryset that is not narrowed by the role.
get_queryset_all(u) == IF ~u.is_authenticated THEN {} ELSE workers

\* WorkerViewSet.get_queryset without query parameters
get_queryset(u) ==
    IF ~u.is_authenticated THEN {}
    ELSE IF u.role = "Agent" THEN {w \in workers : w.agent = u.id}
    ELSE workers

\* The request to /api/workers/ being answered.
WorkerRequest(u, method, id) == [path |-> "workers", method |-> method, user |-> u, id |-> id]

\* The ids given to workers so far: those of the rows and of the log entries.
UsedWorkerIds == {w.id : w \in workers} \cup {activity[i].target : i \in DOMAIN activity}

\* The id the database gives the next Worker.
NextWorkerId == 1 + (CHOOSE m \in UsedWorkerIds \cup {0} : \A k \in UsedWorkerIds \cup {0} : k <= m)

\* An ActivityLog row about a worker.
LogEntry(action, instance, old_status, new_status) ==
    [action |-> action, target |-> instance.id,
     old_status |-> old_status, new_status |-> new_status]

\* worker_pre_save: keeps the stored status of the row under its pk.
worker_pre_save(map, table, instance) ==
    IF instance.id # 0 /\ \E w \in table : w.id = instance.id
    THEN LET old_instance == CHOOSE w \in table : w.id = instance.id
         IN  [k \in DOMAIN map \cup {instance.id} |->
                IF k = instance.id
                THEN [status |-> old_instance.status, client_id |-> old_instance.client]
                ELSE map[k]]
    ELSE map

\* Model.save between the signals: UPDATE of the row with the pk, INSERT when
\* there is none.
WriteWorker(table, instance, newId) ==
    IF instance.id # 0 /\ \E w \in table : w.id = instance.id
    THEN [table |-> {w \in table : w.id # instance.id} \cup {instance},
          instance |-> instance, created |-> FALSE]
    ELSE LET saved == IF instance.id # 0 THEN instance ELSE [instance EXCEPT !.id = newId]
         IN  [table |-> table \cup {saved}, instance |-> saved, created |-> TRUE]

\* log_worker_save: the map after the pop and the log entry written.
log_worker_save(map, instance, created) ==
    IF created
    THEN [map |-> map, entry |-> LogEntry("CREATE", instance, "", "")]
    ELSE LET found == instance.id \in DOMAIN map
             rest == [k \in DOMAIN map \ {instance.id} |-> map[k]]
         IN  IF found /\ map[instance.id].status # "" /\ map[instance.id].status # instance.status
             THEN [map |-> rest,
                   entry |-> LogEntry("STATUS_CHANGE", instance,
                                      map[instance.id].status, instance.status)]
             ELSE [map |-> rest, entry |-> LogEntry("UPDATE", instance, "", "")]

\* Worker.save called by one request at a time: pre_save, the write, post_save.
SaveWorker(instance) ==
    LET map == worker_pre_save(previous_state, workers, instance)
        written == WriteWorker(workers, instance, NextWorkerId)
        logged == log_worker_save(map, written.instance, written.created)
    IN  /\ workers' = written.table
        /\ previous_state' = logged.map
        /\ activity' = Append(activity, logged.entry)

\* The fields of the body assigned to the instance.
PatchWorker(w, data) == [f \in DOMAIN w |-> IF f \in DOMAIN data THEN data[f] ELSE w[f]]

\* GET /api/workers/
WorkerList(u) ==
    /\ UNCHANGED <<backend, clients, workerVars, synclogs, emaillogs, now, settings,
                   records, invoices, smartbill>>
    /\ request' = <<WorkerRequest(u, "GET", 0)>>
    /\ IF ~AgentCannotDelete(u, "GET") THEN Refuse(u)
       ELSE resp' = [status |-> 200, detail |-> "workers", workers |-> get_queryset(u)]

\* GET /api/workers/{id}/
WorkerRetrieve(u, id) ==
    /\ UNCHANGED <<backend, clients, workerVars, synclogs, emaillogs, now, settings,
                   records, invoices, smartbill>>
    /\ request' = <<WorkerRequest(u, "GET", id)>>
    /\ IF ~AgentCannotDelete(u, "GET") THEN Refuse(u)
       ELSE IF \A w \in get_queryset(u) : w.id # id THEN Respond(404, "not_found")
       ELSE resp' = [status |-> 200, detail |-> "worker",
                     workers |-> {w \in get_queryset(u) : w.id = id}]

\* POST /api/workers/: perform_create saves with agent = request.user.
WorkerCreate(u, data) ==
    /\ UNCHANGED <<backend, clients, saves, synclogs, emaillogs, now, settings, records,
                   invoices, smartbill>>
    /\ request' = <<WorkerRequest(u, "POST", 0)>>
    /\ IF ~AgentCannotDelete(u, "POST")
       THEN Refuse(u) /\ UNCHANGED <<workers, activity, previous_state>>
       ELSE IF data.autoritate_emitenta_pasaport = ""
       THEN Respond(400, "validation") /\ UNCHANGED <<workers, activity, previous_state>>
       ELSE /\ SaveWorker([id |-> 0, agent |-> u.id, status |-> data.status,
                           client |-> 0, created_by |-> u.id])
            /\ resp' = [status |-> 201, detail |-> "worker_created", workers |-> workers' \ workers]

\* PUT and PATCH /api/workers/{id}/
WorkerUpdate(u, id, data) ==
    /\ UNCHANGED <<backend, clients, saves, synclogs, emaillogs, now, settings, records,
                   invoices, smartbill>>
    /\ request' = <<WorkerRequest(u, "PATCH", id)>>
    /\ IF ~AgentCannotDelete(u, "PATCH")
       THEN Refuse(u) /\ UNCHANGED <<workers, activity, previous_state>>
       ELSE IF \A w \in get_queryset(u) : w.id # id
       THEN Respond(404, "not_found") /\ UNCHANGED <<workers, activity, previous_state>>
       ELSE LET instance == PatchWorker(CHOOSE w \in get_queryset(u) : w.id = id, data)
            IN  /\ SaveWorker(instance)
                /\ resp' = [status |-> 200, detail |-> "worker_updated", workers |-> {instance}]

\* DELETE /api/workers/{id}/, with log_worker_delete
WorkerDestroy(u, id) ==
    /\ UNCHANGED <<backend, clients, previous_state, saves, synclogs, emaillogs, now,
                   settings, records, invoices, smartbill>>
    /\ request' = <<WorkerRequest(u, "DELETE", id)>>
    /\ IF ~AgentCannotDelete(u, "DELETE")
       THEN Refuse(u) /\ UNCHANGED <<workers, activity>>
       ELSE IF \A w \in get_queryset(u) : w.id # id
       THEN Respond(404, "not_found") /\ UNCHANGED <<workers, activity>>
       ELSE LET instance == CHOOSE w \in get_queryset(u) : w.id = id
            IN  /\ workers' = workers \ {instance}
                /\ activity' = Append(activity, LogEntry("DELETE", instance, "", ""))
                /\ Respond(204, "worker_deleted")

----------------------------------------------------------------------------
(* Specification of the worker endpoints, one request at a time *)

\* Largest number of workers ever created.
MaxWorkers == 2

\* Largest number of ActivityLog rows.
MaxLogs == 3

\* Bodies of POST /api/workers/: with and without the passport's authority.
NewWorkers ==
    {[status |-> AVIZ_SOLICITAT, autoritate_emitenta_pasaport |-> a] : a \in {"", "MAI"}}

\* Bodies of PATCH /api/workers/{id}/: a new status, another agent.
WorkerPatches == {[status |-> VIZA_OBTINUTA], [agent |-> AgentB.id]}

\* The ids a request can name.
WorkerIds == 1 .. MaxWorkers

InitWorkers == InitWindow

DoWorkerList == \E u \in IssUsers : WorkerList(u)

DoWorkerRetrieve == \E u \in IssUsers, id \in WorkerIds : WorkerRetrieve(u, id)

DoWorkerCreate ==
    /\ NextWorkerId <= MaxWorkers
    /\ Len(activity) < MaxLogs
    /\ \E u \in IssUsers, data \in NewWorkers : WorkerCreate(u, data)

DoWorkerUpdate ==
    /\ Len(activity) < MaxLogs
    /\ \E u \in IssUsers, id \in WorkerIds, data \in WorkerPatches : WorkerUpdate(u, id, data)

DoWorkerDestroy ==
    /\ Len(activity) < MaxLogs
    /\ \E u \in IssUsers, id \in WorkerIds : WorkerDestroy(u, id)

NextWorkers ==
    \/ DoWorkerList
    \/ DoWorkerRetrieve
    \/ DoWorkerCreate
    \/ DoWorkerUpdate
    \/ DoWorkerDestroy

SpecWorkers == InitWorkers /\ [][NextWorkers]_vars

----------------------------------------------------------------------------
(* Specification of Worker.save in concurrent requests *)

\* The request threads of the server.
Threads == {1, 2}

\* The worker both requests are about.
FirstWorker ==
    [id |-> 1, agent |-> AgentA.id, status |-> AVIZ_SOLICITAT, client |-> 0,
     created_by |-> AgentA.id]

\* A thread that is not saving.
Idle == [pc |-> "idle", instance |-> [FirstWorker EXCEPT !.id = 0], created |-> FALSE, before |-> ""]

\* Bodies of PATCH /api/workers/{id}/: a status, another agent.
StatusPatches == {[status |-> st] : st \in WorkerStatuses} \cup {[agent |-> AgentB.id]}

\* The status the row with the instance's pk holds, "" if there is no such row.
StoredStatus(instance) ==
    IF \E w \in workers : w.id = instance.id
    THEN (CHOOSE w \in workers : w.id = instance.id).status
    ELSE ""

\* partial_update up to serializer.save(): get_object and the fields of the body.
save_begin(t, u, id, data) ==
    /\ saves[t].pc = "idle"
    /\ UNCHANGED <<backend, clients, workers, activity, previous_state, synclogs, emaillogs,
                   now, settings, records, invoices, smartbill>>
    /\ request' = <<WorkerRequest(u, "PATCH", id)>>
    /\ IF ~AgentCannotDelete(u, "PATCH") THEN Refuse(u) /\ UNCHANGED saves
       ELSE IF \A w \in get_queryset(u) : w.id # id
       THEN Respond(404, "not_found") /\ UNCHANGED saves
       ELSE /\ saves' = [saves EXCEPT ![t] =
                            [Idle EXCEPT !.pc = "pre_save",
                                         !.instance = PatchWorker(CHOOSE w \in get_queryset(u) : w.id = id, data)]]
            /\ UNCHANGED resp

\* Model.save: the pre_save signal.
save_pre_save(t) ==
    /\ saves[t].pc = "pre_save"
    /\ UNCHANGED <<backend, clients, workers, activity, synclogs, emaillogs, now, settings,
                   records, invoices, smartbill, resp, request>>
    /\ previous_state' = worker_pre_save(previous_state, workers, saves[t].instance)
    /\ saves' = [saves EXCEPT ![t].pc = "write"]

\* Model.save: the write, which the database performs or refuses with an error.
save_write(t, ok) ==
    /\ saves[t].pc = "write"
    /\ UNCHANGED <<backend, clients, activity, previous_state, synclogs, emaillogs, now,
                   settings, records, invoices, smartbill, request>>
    /\ IF ~ok
       THEN /\ saves' = [saves EXCEPT ![t] = Idle]
            /\ Respond(500, "database_error")
            /\ UNCHANGED workers
       ELSE LET written == WriteWorker(workers, saves[t].instance, NextWorkerId)
            IN  /\ workers' = written.table
                /\ saves' = [saves EXCEPT ![t].pc = "post_save",
                                          ![t].created = written.created,
                                          ![t].before = StoredStatus(saves[t].instance)]
                /\ UNCHANGED resp

\* Model.save: the post_save signal, then the response.
save_post_save(t) ==
    /\ saves[t].pc = "post_save"
    /\ UNCHANGED <<backend, clients, workers, synclogs, emaillogs, now, settings, records,
                   invoices, smartbill, request>>
    /\ LET logged == log_worker_save(previous_state, saves[t].instance, saves[t].created)
       IN  /\ previous_state' = logged.map
           /\ activity' = Append(activity, logged.entry)
    /\ saves' = [saves EXCEPT ![t] = Idle]
    /\ resp' = [status |-> 200, detail |-> "worker_updated", workers |-> {saves[t].instance}]

\* The saves begun and not yet finished.
InProgress == {t \in Threads : saves[t].pc # "idle"}

InitSaves ==
    /\ backend = "postgresql"
    /\ clients = ClientTable
    /\ workers = {FirstWorker}
    /\ activity = <<>>
    /\ previous_state = <<>>
    /\ saves = [t \in Threads |-> Idle]
    /\ settings = {}
    /\ records = {}
    /\ invoices = {}
    /\ smartbill = {}
    /\ synclogs = <<>>
    /\ emaillogs = <<>>
    /\ now = 0
    /\ resp = [status |-> 0, detail |-> "none"]
    /\ request = <<>>

DoSaveBegin ==
    /\ Len(activity) + Cardinality(InProgress) < MaxLogs
    /\ \E t \in Threads, u \in {AgentA, ExpertUser}, data \in StatusPatches :
            save_begin(t, u, FirstWorker.id, data)

DoSavePreSave == \E t \in Threads : save_pre_save(t)

DoSaveWrite == \E t \in Threads, ok \in BOOLEAN : save_write(t, ok)

DoSavePostSave == \E t \in Threads : save_post_save(t)

DoSaveDestroy ==
    /\ Len(activity) + Cardinality(InProgress) < MaxLogs
    /\ WorkerDestroy(ExpertUser, FirstWorker.id)

NextSaves ==
    \/ DoSaveBegin
    \/ DoSavePreSave
    \/ DoSaveWrite
    \/ DoSavePostSave
    \/ DoSaveDestroy

SpecSaves == InitSaves /\ [][NextSaves]_vars

----------------------------------------------------------------------------
(* Properties of the EcoFin endpoints *)

NonSuperusers == {u \in Users : ~u.is_superuser}

Rejected == resp'.status = 403 /\ records' = records

ValidatedKept == \A r \in records : r.is_validated => r \in records'

ImportDone == resp.detail = "import_processed"

LockedSettingsKeptFromNonSuperusers ==
    [][\A u \in NonSuperusers, s \in settings :
          (/\ s.is_locked
           /\ \/ \E data \in SettingsData : SettingsCreate(u, data)
              \/ \E data \in SettingsData : SettingsUpdate(u, s, data, FALSE)
              \/ \E data \in SettingsPatches : SettingsUpdate(u, s, data, TRUE)
              \/ SettingsDestroy(u, s))
          => \E t \in settings' :
                 /\ InPeriod(t, s)
                 /\ t.cheltuieli_indirecte = s.cheltuieli_indirecte
                 /\ t.cost_concediu = s.cost_concediu]_vars

\* C8: no two rows of EcoFinProcessedRecord share (worker, client, year, month),
\* whatever imports, record creates and record updates came before.
UniqueRecordKey ==
    \A r1 \in records, r2 \in records : SameKey(r1, r2) => r1 = r2

\* An import that listed worker 1 twice has been answered.
SameWorkerTwiceImported ==
    /\ ImportDone
    /\ Len(request) = 2
    /\ request[1].is_valid /\ request[2].is_valid
    /\ request[1].worker_id = 1 /\ request[2].worker_id = 1
    /\ resp.errors >= 1

----------------------------------------------------------------------------
(* Properties of the import *)

\* The period the response names.
RespPeriod == [year |-> resp.year, month |-> resp.month]

\* The records the answered import left in its month: it deleted the month's
\* unvalidated records before it created any.
Persisted == {r \in records : InPeriod(r, RespPeriod) /\ ~r.is_validated}

\* The rows of the request that the preview marked valid.
NumValid == Cardinality({i \in DOMAIN request : request[i].is_valid})

\* The settings of the month of the answered import.
MonthSettings == CHOOSE s \in settings : InPeriod(s, RespPeriod)

\* C5: process_import is all-or-nothing: after an import either every valid row of
\* the request has its record persisted or no record of the request is persisted.
ImportAllOrNothing ==
    ImportDone => Persisted = {} \/ Cardinality(Persisted) = NumValid

\* C6: every record an import created carries the same cota_indirecte, the month's
\* cheltuieli_indirecte divided by the number of rows of the request with is_valid
\* true (rows that then failed included), at the two decimals of the column; with no
\* such row the share is 0 and nothing is created.
ImportShareIsQuotient ==
    /\ \A s \in settings : Quantize(CotaIndirecte(s, 0)) = 0
    /\ ImportDone =>
           /\ NumValid = 0 => Persisted = {}
           /\ \A r \in Persisted :
                  /\ NumValid > 0
                  /\ r.cota_indirecte = Quantize(<<MonthSettings.cheltuieli_indirecte, NumValid>>)

\* Two records were created by an import in which a third valid row failed.
TwoCreatedOfThree ==
    /\ ImportDone
    /\ NumValid = 3
    /\ Cardinality(Persisted) = 2

\* C7 as stated: the stored share times the number of valid rows is within 0.01 of
\* the month's cheltuieli_indirecte.
ImportShareTimesCountWithinCent ==
    ImportDone =>
        \A r \in Persisted :
            Abs(NumValid * r.cota_indirecte - MonthSettings.cheltuieli_indirecte) <= 1

\* C7, amended: the stored share is within half a hundredth of the quotient, so the
\* share times the number of valid rows is within that number of half hundredths of
\* the month's cheltuieli_indirecte; with no valid row the share is 0.
ImportShareWithinHalfCentEach ==
    /\ \A s \in settings : Quantize(CotaIndirecte(s, 0)) = 0
    /\ ImportDone =>
           \A r \in Persisted :
               2 * Abs(NumValid * r.cota_indirecte - MonthSettings.cheltuieli_indirecte)
                   <= NumValid

\* Four valid rows shared 100.02: the stored share is 25.00 or 25.01.
FourRowsShareOffByTwo ==
    /\ ImportDone
    /\ NumValid = 4
    /\ \E r \in Persisted :
           Abs(4 * r.cota_indirecte - MonthSettings.cheltuieli_indirecte) = 2

----------------------------------------------------------------------------
(* Properties of the saves *)

\* The sum of the stored cost fields of a row.
CostSum(r) ==
    r.salariu_brut + r.cam + r.cost_cazare + r.cost_masa + r.cost_transport
        + r.cota_indirecte + r.cost_concediu

Derived(r) == [f \in DerivedFields |-> r[f]]

\* The derived fields computed from the stored inputs of a row (all of two decimals).
Recomputed(r) ==
    [f \in DerivedFields |->
        CASE f = "cost_salarial_complet" -> r.salariu_brut + r.cam
          [] f = "cost_salariat_total" -> CostSum(r)
          [] f = "venit_generat" -> Quantize(<<r.ore_lucrate * r.tarif_orar, 100>>)
          [] OTHER -> Quantize(<<r.ore_lucrate * r.tarif_orar - 100 * CostSum(r), 100>>)]

\* C3: a save through the record endpoints recomputes the four derived fields from
\* the current inputs when is_validated is false, and leaves them as they were (zero
\* on a new record) when is_validated is true, even if the save changed an input.
SaveRecomputesUnlessValidated ==
    [][/\ resp'.detail = "updated" =>
              \A r \in records \ records', r2 \in records' \ records :
                  /\ ~r2.is_validated => Derived(r2) = Recomputed(r2)
                  /\ r2.is_validated => Derived(r2) = Derived(r)
       /\ resp'.detail = "created" =>
              \A r2 \in records' \ records :
                  /\ ~r2.is_validated => Derived(r2) = Recomputed(r2)
                  /\ r2.is_validated => \A f \in DerivedFields : r2[f] = 0]_vars

\* A validated record was saved with other hours and kept its derived fields.
ValidatedSavedWithStaleDerived ==
    /\ resp.detail = "updated"
    /\ \E r \in records :
           /\ r.is_validated
           /\ r.venit_generat # 0
           /\ Derived(r) # Recomputed(r)

----------------------------------------------------------------------------
(* Properties of issue_invoice *)

\* The VAT rate as a whole number of percent.
VatPercent == vat_rate \div 100

\* C9 as stated: every invoice issue_invoice creates has vat_total equal to
\* subtotal * vatRate / 100 and total equal to subtotal + vat_total.
InvoiceTotalsExact ==
    [][resp'.detail = "invoice_issued" =>
        \A inv \in invoices' \ invoices :
            /\ 100 * inv.vat_total = VatPercent * inv.subtotal
            /\ inv.total = inv.subtotal + inv.vat_total]_vars

\* C9, to the cent: every invoice issue_invoice creates, in each mode, has vat_total
\* within a cent of subtotal * 21 / 100 and total within a cent of
\* subtotal + vat_total; a standard invoice has its subtotal within half a cent of
\* hours_billed * hourly_rate, and 200 hours at rate 30 give 6000, 1260 and 7260.
InvoiceTotalsToTheCent ==
    [][resp'.detail = "invoice_issued" =>
        \A inv \in invoices' \ invoices :
            /\ Abs(100 * inv.vat_total - VatPercent * inv.subtotal) <= 60
            /\ Abs(inv.total - (inv.subtotal + inv.vat_total)) <= 1
            /\ inv.lines[1].line_type = "standard" =>
                   Abs(100 * inv.subtotal - inv.hours_billed * inv.hourly_rate) <= 50
            /\ (inv.hours_billed = 20000 /\ inv.hourly_rate = 3000) =>
                   /\ inv.subtotal = 600000
                   /\ inv.vat_total = 126000
                   /\ inv.total = 726000]_vars

\* An invoice has just been issued whose total is not its subtotal plus its VAT.
InvoiceOffByACent ==
    /\ resp.detail = "invoice_issued"
    /\ \E inv \in invoices :
        /\ inv.number = Cardinality(smartbill)
        /\ inv.status = "issued"
        /\ inv.total # inv.subtotal + inv.vat_total

\* The standard subtotal of the request's client and period (hours * rate) is at
\* most the sum of the subtotals of its ISSUED invoices.
Covered(d) ==
    LET p == [year |-> d.year, month |-> d.month]
        hours == SumOreLucrate({r \in records : r.client = d.client_id /\ InPeriod(r, p)})
        billed == SumSubtotal({inv \in invoices :
                                 /\ inv.client = d.client_id
                                 /\ InPeriod(inv, p)
                                 /\ inv.status = "issued"})
    IN  hours * ClientRow(d.client_id).tarif_orar <= 100 * billed

\* C10: a difference-mode request for a client and period whose standard subtotal
\* is at most the sum of the subtotals of the ISSUED invoices is answered with an
\* error, and no invoice is created, locally or in SmartBill.
DifferenceRefusedWhenCovered ==
    [][(/\ request' # <<>>
        /\ request'[1].mode = "difference"
        /\ request'[1].client_id \in Clients
        /\ Covered(request'[1]))
       => (/\ resp'.status >= 400
           /\ invoices' = invoices
           /\ smartbill' = smartbill)]_vars

\* A difference request was refused for a client with hours and an ISSUED invoice.
DifferenceRefused ==
    /\ resp.detail = "no_difference"
    /\ request # <<>>
    /\ \E r \in records : r.client = request[1].client_id /\ r.ore_lucrate > 0
    /\ ExistingInvoices(request[1].client_id, Dec) # {}

\* The standard subtotal of a request's client and period over a table of records,
\* in ten-thousandths: hours (hundredths) times rate (hundredths).
StandardSubtotal(recs, d) ==
    SumOreLucrate({r \in recs : /\ r.client = d.client_id
                                /\ r.year = d.year
                                /\ r.month = d.month})
        * ClientRow(d.client_id).tarif_orar

\* The sum of the subtotals of the ISSUED invoices of a request's client and period
\* over a table of invoices, in hundredths.
IssuedSubtotals(invs, d) ==
    SumSubtotal({inv \in invs : /\ inv.client = d.client_id
                                /\ inv.year = d.year
                                /\ inv.month = d.month
                                /\ inv.status = "issued"})

\* A difference-mode request has just been answered with a new invoice.
DifferenceIssued ==
    /\ request' # <<>>
    /\ request'[1].mode = "difference"
    /\ resp'.detail = "invoice_issued"

\* C11: when issue_invoice succeeds in difference mode the new invoice has exactly
\* one line and the standard subtotal less what was billed as its subtotal, so
\* that afterwards the ISSUED subtotals of the client and period add up to the
\* standard subtotal (and a repeated difference request is refused).
DifferenceTopsUpToStandard ==
    [][DifferenceIssued =>
        /\ \A inv \in invoices' \ invoices :
            /\ Len(inv.lines) = 1
            /\ 100 * inv.subtotal =
                   StandardSubtotal(records, request'[1])
                       - 100 * IssuedSubtotals(invoices, request'[1])
        /\ 100 * IssuedSubtotals(invoices', request'[1])
               = StandardSubtotal(records', request'[1])]_vars

\* Two difference invoices in a row for the same client with the hours unchanged.
DifferenceIssuedTwice ==
    /\ resp.detail = "invoice_issued"
    /\ request # <<>>
    /\ Cardinality({inv \in invoices :
                      /\ inv.client = request[1].client_id
                      /\ inv.lines[1].line_type = "difference"
                      /\ inv.hourly_rate = 2525}) >= 2

\* The request passes every check that precedes the SmartBill call: the hours are
\* confirmed, SmartBill is configured, the client exists, there is a difference to
\* bill in difference mode and there are lines in extra_services mode.
ReachesSmartBill(d, env) ==
    /\ d.confirm_hours_agreed
    /\ env.configured
    /\ d.client_id \in Clients
    /\ d.mode = "difference" =>
           StandardSubtotal(records, d) > 100 * IssuedSubtotals(invoices, d)
    /\ d.mode = "extra_services" => d.extra_lines # <<>>

\* C12: when the SmartBill issue call fails, issue_invoice creates and changes no
\* invoice and no invoice line, and answers 502 with the response data of the
\* SmartBill error.
IssueFailureCreatesNothing ==
    [][\A d \in IssueRequests, env \in Envs :
        (/\ ReachesSmartBill(d, env)
         /\ env.issue # "ok"
         /\ issue_invoice(Expert, d, env))
        => (/\ resp'.status = 502
            /\ resp'.error_data = ResponseData(env.issue)
            /\ invoices' = invoices)]_vars

\* SmartBill answered a difference request with an error while invoices existed.
IssueFailedUpstream ==
    /\ resp.status = 502
    /\ resp.error_data = "error_body"
    /\ request # <<>>
    /\ invoices # {}

\* C13: when fetching or storing the PDF fails after SmartBill issued the
\* invoice, the invoice and its lines stay in the tables with an empty pdf_path
\* and the request is answered as a success.
PdfFailureKeepsInvoice ==
    [][\A d \in IssueRequests, env \in Envs :
        (/\ ReachesSmartBill(d, env)
         /\ env.issue = "ok"
         /\ env.pdf # "ok"
         /\ issue_invoice(Expert, d, env))
        => (/\ resp'.status = 201
            /\ \E inv \in invoices' \ invoices :
                /\ inv.number = NextNumber
                /\ inv.pdf_path = ""
                /\ Len(inv.lines) >= 1)]_vars

----------------------------------------------------------------------------
(* Properties of the payments *)

\* C14 as stated, on the rows of the table: UNPAID when paid_amount = 0, PARTIAL
\* when 0 < paid_amount < total, PAID when paid_amount >= total.
PaymentStatusByAmounts ==
    \A inv \in invoices :
        /\ inv.paid_amount = 0 => inv.payment_status = "unpaid"
        /\ (0 < inv.paid_amount /\ inv.paid_amount < inv.total) =>
               inv.payment_status = "partial"
        /\ inv.paid_amount >= inv.total => inv.payment_status = "paid"

\* PAID if paid >= total, else PARTIAL if paid > 0, else UNPAID, for two amounts in
\* hundredths given as fractions.
StatusInOrder(paid, total) ==
    IF paid[1] * total[2] >= total[1] * paid[2] THEN "paid"
    ELSE IF paid[1] > 0 THEN "partial"
    ELSE "unpaid"

\* The payments of a list that sync_payments applies to the invoice: those of its
\* series and number whose amount is a number.
Applied(payments, inv) ==
    SelectSeq(payments, LAMBDA e : /\ e.invoiceSeries = Series
                                   /\ e.invoiceNumber = inv.number
                                   /\ e.paidAmount # NotANumber)

\* C14, in the order of the code: after a save, payment_status is PAID if
\* paid_amount >= total, else PARTIAL if paid_amount > 0, else UNPAID, for the
\* amounts the invoice holds when it is saved (the payment as SmartBill gave it,
\* the amounts of the row otherwise).  On the stored row: more than the total paid
\* is PAID, a part of it PARTIAL, UNPAID has nothing paid, and an invoice that was
\* never synchronised with nothing paid and a total above 0 is UNPAID.
PaymentStatusInOrder ==
    [][/\ \A inv \in invoices' :
            /\ inv.paid_amount > inv.total => inv.payment_status = "paid"
            /\ (0 < inv.paid_amount /\ inv.paid_amount < inv.total) =>
                   inv.payment_status = "partial"
            /\ inv.payment_status = "unpaid" => inv.paid_amount = 0
            /\ inv.payment_status = "paid" => inv.paid_amount >= inv.total
            /\ inv.payment_status = "partial" => inv.paid_amount <= inv.total
            /\ (/\ inv.paid_amount = 0
                /\ inv.total > 0
                /\ inv.last_payment_sync_at = Never) => inv.payment_status = "unpaid"
       /\ resp'.detail = "sync_done" =>
            \A inv \in invoices' :
                LET applied == Applied(request', inv)
                IN  applied # <<>> =>
                        inv.payment_status =
                            StatusInOrder(applied[Len(applied)].paidAmount, Rat(inv.total))
       /\ resp'.detail \in {"invoice_updated", "email_sent"} =>
            \A inv \in invoices' \ invoices :
                inv.payment_status = StatusInOrder(Rat(inv.paid_amount), Rat(inv.total))]_vars

\* An invoice of 0.00 with nothing paid is PAID, and a synchronised invoice is
\* partly paid.
ZeroInvoicePaid ==
    /\ \E inv \in invoices :
        /\ inv.total = 0
        /\ inv.paid_amount = 0
        /\ inv.payment_status = "paid"
    /\ \E inv \in invoices :
        /\ inv.last_payment_sync_at # Never
        /\ inv.payment_status = "partial"

\* C15 as stated: every invoice of the table has due_amount = total - paid_amount.
DueIsTotalMinusPaid ==
    \A inv \in invoices : inv.due_amount = inv.total - inv.paid_amount

\* An amount of whole hundredths.
WholeCents(amount) == amount[1] % amount[2] = 0

\* C15, on the stored row: due_amount and paid_amount are total - paid_amount and
\* paid_amount each rounded to two decimals, so due_amount is within 0.01 of total -
\* paid_amount on every invoice, and equal to it after every save whose amounts
\* have no more than two decimals: a payment in whole hundredths, a PATCH of
\* paid_amount, an email send.
DueIsTotalMinusPaidToTheCent ==
    [][/\ \A inv \in invoices \cup invoices' :
            Abs(inv.due_amount - (inv.total - inv.paid_amount)) <= 1
       /\ resp'.detail = "sync_done" =>
            \A inv \in invoices' :
                LET applied == Applied(request', inv)
                IN  (applied # <<>> /\ WholeCents(applied[Len(applied)].paidAmount)) =>
                        /\ inv.paid_amount * applied[Len(applied)].paidAmount[2] =
                               applied[Len(applied)].paidAmount[1]
                        /\ inv.due_amount = inv.total - inv.paid_amount
       /\ resp'.detail \in {"invoice_updated", "email_sent"} =>
            \A inv \in invoices' \ invoices :
                inv.due_amount = inv.total - inv.paid_amount]_vars

\* A synchronised invoice whose due_amount is a cent away from total - paid_amount.
DueOffByACent ==
    \E inv \in invoices :
        /\ inv.last_payment_sync_at # Never
        /\ Abs(inv.due_amount - (inv.total - inv.paid_amount)) = 1

\* What payment reconciliation decides of an invoice.
PaymentState(inv) ==
    [number |-> inv.number, paid_amount |-> inv.paid_amount,
     due_amount |-> inv.due_amount, payment_status |-> inv.payment_status]

\* C16: payment reconciliation is idempotent.  After a run that applied a list of
\* payments, every invoice a payment was applied to holds the value of the last
\* such payment (at the column's two decimals), not a sum; applying the same list
\* once more, at any later time, leaves paid_amount, due_amount and payment_status
\* of every invoice as they are; and a run that follows a run and ends on the
\* payment that one ended on, for an invoice, leaves its three fields as they were.
PaymentSyncIdempotent ==
    [][resp'.detail = "sync_done" =>
        /\ \A inv \in invoices' :
              LET applied == Applied(request', inv)
              IN  applied # <<>> =>
                      inv.paid_amount = Quantize(applied[Len(applied)].paidAmount)
        /\ \A ts \in {now, now + 1} :
              {PaymentState(inv) : inv \in SyncLoop(request', 1, ts, invoices', 0, 0).invoices}
                  = {PaymentState(inv) : inv \in invoices'}
        /\ resp.detail = "sync_done" =>
              \A inv \in invoices :
                  LET applied == Applied(request', inv)
                      before == Applied(request, inv)
                  IN  (/\ applied # <<>>
                       /\ before # <<>>
                       /\ applied[Len(applied)] = before[Len(before)]) =>
                          PaymentState(inv) \in {PaymentState(after) : after \in invoices'}]_vars

\* Two runs have each applied the same payment of 1000.00 twice, and the invoice
\* has 1000.00 paid.
SamePaymentAppliedAgain ==
    /\ Len(synclogs) = 2
    /\ \A k \in DOMAIN synclogs :
        /\ synclogs[k].status = "success"
        /\ synclogs[k].result_counts.invoices_updated = 2
    /\ Len(request) = 2
    /\ request[1] = request[2]
    /\ \E inv \in invoices :
        /\ inv.number = request[1].invoiceNumber
        /\ inv.paid_amount = 100000
        /\ inv.due_amount = inv.total - 100000
        /\ inv.payment_status = "partial"

----------------------------------------------------------------------------
(* Properties of the query window *)

\* The finishing times of the runs of logs that ended with SUCCESS.
SuccessTimes(logs) ==
    {logs[k].sync_finished_at : k \in {j \in DOMAIN logs : logs[j].status = "success"}}

\* The lower bound C17 states for a run that starts at time ts with the logs
\* logs: the latest finishing time of a SUCCESS run, or ts less 90 days.
LowerBound(logs, ts) ==
    IF SuccessTimes(logs) # {}
    THEN CHOOSE t \in SuccessTimes(logs) : \A other \in SuccessTimes(logs) : other <= t
    ELSE ts - 90 * TicksPerDay

\* C17: a run of sync_payments asks SmartBill for the payments from the
\* sync_finished_at of the most recent SUCCESS log on (from its day, as the query
\* carries dates), or from now - 90 days when there is no SUCCESS log; a run that
\* ends with FAILURE, and one that is still IN_PROGRESS, leave the lower bound of
\* the next run where it was.
SyncWindowFromLastSuccess ==
    [][/\ Len(synclogs') = Len(synclogs) + 1 =>
            LET log == synclogs'[Len(synclogs')]
            IN  /\ log.status = "in_progress"
                /\ log.requested_from_ts = LowerBound(synclogs, now)
                /\ log.requested_to_ts = now
                /\ log.startDate = StartDate(LowerBound(synclogs, now))
                /\ \A ts \in now .. MaxTime : LowerBound(synclogs', ts) = LowerBound(synclogs, ts)
       /\ (synclogs' # synclogs /\ resp'.detail \in {"smartbill_error", "sync_failed"}) =>
            /\ \E k \in DOMAIN synclogs :
                /\ synclogs[k].status = "in_progress"
                /\ synclogs'[k].status = "failure"
            /\ \A ts \in now .. MaxTime : LowerBound(synclogs', ts) = LowerBound(synclogs, ts)
       /\ (synclogs' # synclogs /\ resp'.detail = "sync_done") =>
            \A ts \in now .. MaxTime : LowerBound(synclogs', ts) = now]_vars

\* A run has started after a SUCCESS run and a later FAILURE run, and its window
\* starts where the SUCCESS run finished.
WindowKeptAfterFailure ==
    \E s, f, k \in DOMAIN synclogs :
        /\ synclogs[s].status = "success"
        /\ synclogs[f].status = "failure"
        /\ synclogs[f].sync_finished_at > synclogs[s].sync_finished_at
        /\ synclogs[k].status = "in_progress"
        /\ synclogs[k].requested_to_ts > synclogs[f].sync_finished_at
        /\ synclogs[k].requested_from_ts = synclogs[s].sync_finished_at

----------------------------------------------------------------------------
(* Properties of the payments, continued *)

\* The payments of a list that match no local invoice.
Unmatched(payments, invs) ==
    SelectSeq(payments, LAMBDA e : ~\E inv \in invs : /\ e.invoiceSeries = Series
                                                      /\ e.invoiceNumber = inv.number)

\* A run that met a payment matching no invoice went on: it ended with SUCCESS,
\* the invoices no payment was applied to are as they were, and the others hold
\* the last payment applied to them.
UnmatchedPaymentNotFatal ==
    [][(/\ synclogs' # synclogs
        /\ resp'.detail \in {"sync_done", "smartbill_error", "sync_failed"}
        /\ request' # <<>>
        /\ Unmatched(request', invoices) # <<>>) =>
            /\ resp'.status = 200
            /\ synclogs'[Len(synclogs')].status = "success"
            /\ \A inv \in invoices : Applied(request', inv) = <<>> => inv \in invoices'
            /\ \A inv \in invoices' :
                  Applied(request', inv) # <<>> =>
                      LET applied == Applied(request', inv)
                      IN  /\ inv.paid_amount = Quantize(applied[Len(applied)].paidAmount)
                          /\ inv.last_payment_sync_at = now]_vars

\* C18: a payment that matches no local invoice is not fatal to the run and is
\* reported: the run ends with SUCCESS, the other payments are applied, no invoice
\* is changed by it, and the errors of the result name it.
UnmatchedPaymentReported ==
    [][(/\ synclogs' # synclogs
        /\ resp'.detail \in {"sync_done", "smartbill_error", "sync_failed"}
        /\ request' # <<>>
        /\ Unmatched(request', invoices) # <<>>) =>
            /\ resp'.status = 200
            /\ synclogs'[Len(synclogs')].status = "success"
            /\ \A inv \in invoices : Applied(request', inv) = <<>> => inv \in invoices'
            /\ resp'.errors >= Len(Unmatched(request', invoices))
            /\ synclogs'[Len(synclogs')].result_counts.errors_count
                   >= Len(Unmatched(request', invoices))]_vars

----------------------------------------------------------------------------
(* Properties of invoice issuance, continued *)

\* C19: a request with confirm_hours_agreed false is answered 400 in every mode,
\* whatever the state of SmartBill, the client and the tables: no invoice is issued
\* in SmartBill and no invoice row is created or changed.
UnconfirmedHoursRejected ==
    [][\A d \in IssueRequests, env \in Envs :
          (~d.confirm_hours_agreed /\ issue_invoice(Expert, d, env)) =>
              /\ resp'.status = 400
              /\ resp'.detail = "hours_not_confirmed"
              /\ invoices' = invoices
              /\ smartbill' = smartbill]_vars

\* An unconfirmed difference request was refused while the month had hours left
\* to bill after its first invoice.
UnconfirmedDifferenceRefused ==
    /\ resp.detail = "hours_not_confirmed"
    /\ request # <<>>
    /\ request[1].mode = "difference"
    /\ ~request[1].confirm_hours_agreed
    /\ \E inv \in invoices : inv.client = request[1].client_id /\ inv.status = "issued"
    /\ ~Covered(request[1])

\* Sum of quantity * unit_price over extra_lines, in ten-thousandths.
RECURSIVE SumProducts(_)
SumProducts(extra_lines) ==
    IF extra_lines = <<>> THEN 0
    ELSE extra_lines[1].quantity * extra_lines[1].unit_price + SumProducts(Tail(extra_lines))

\* The rows an issuance has added.
Created == invoices' \ invoices

\* An extra_services request with no extra_lines is answered 400 and creates
\* nothing.
EmptyExtraLinesRefused ==
    \A d \in IssueRequests, env \in Envs :
        (/\ d.confirm_hours_agreed
         /\ d.mode = "extra_services"
         /\ d.extra_lines = <<>>
         /\ issue_invoice(Expert, d, env)) =>
            /\ resp'.status \in {400, 503}
            /\ env.configured => resp'.detail = "extra_lines_required"
            /\ invoices' = invoices
            /\ smartbill' = smartbill

\* C20 as stated: an extra_services request with no extra_lines is refused and
\* creates nothing; otherwise the subtotal of the invoice is the sum over the
\* lines of quantity * unit_price.
ExtraSubtotalIsSum ==
    [][/\ EmptyExtraLinesRefused
       /\ \A d \in IssueRequests, env \in Envs :
            (/\ d.mode = "extra_services"
             /\ issue_invoice(Expert, d, env)
             /\ resp'.detail = "invoice_issued") =>
                \E inv \in Created :
                    /\ Created = {inv}
                    /\ 100 * inv.subtotal = SumProducts(d.extra_lines)]_vars

\* C20, on the stored row: an extra_services request with no extra_lines is
\* refused and creates nothing; otherwise the subtotal of the invoice is the sum
\* over the lines of quantity * unit_price rounded to two decimals, whatever hours
\* the month has and whatever invoices were issued before.
ExtraSubtotalIsSumToTheCent ==
    [][/\ EmptyExtraLinesRefused
       /\ \A d \in IssueRequests, env \in Envs :
            (/\ d.mode = "extra_services"
             /\ issue_invoice(Expert, d, env)
             /\ resp'.detail = "invoice_issued") =>
                \E inv \in Created :
                    /\ Created = {inv}
                    /\ inv.client = d.client_id
                    /\ Len(inv.lines) = Len(d.extra_lines)
                    /\ 2 * Abs(100 * inv.subtotal - SumProducts(d.extra_lines)) <= 100
                    /\ SumProducts(d.extra_lines) % 100 = 0 =>
                           100 * inv.subtotal = SumProducts(d.extra_lines)]_vars

\* An extra_services invoice of 70.02 or 70.03 for lines that add up to 70.025,
\* issued after another invoice of the client for the month.
ExtraInvoiceRounded ==
    \E inv, other \in invoices :
        /\ inv.lines[1].line_type = "extra"
        /\ inv.subtotal \in {7002, 7003}
        /\ other.client = inv.client
        /\ other.lines[1].line_type = "standard"
        /\ other.number < inv.number
        /\ other.status = "issued"

----------------------------------------------------------------------------
(* Properties of the client endpoints *)

\* The fields of a record that were taken from its client.
SnapshotFields == {"tarif_orar", "cost_cazare", "cost_masa", "cost_transport"}

\* C22: a change of a client's tarif_orar, cazare_cost, masa_cost or transport_cost
\* leaves every record and every invoice as it was; a record saved again afterwards
\* keeps the costs it took from the client and has its revenue computed from the
\* tariff it holds; an invoice issued afterwards leaves the earlier ones as they
\* were.
SnapshotsKept ==
    [][/\ resp'.detail = "client_updated" =>
            (records' = records /\ invoices' = invoices)
       /\ resp'.detail = "updated" =>
            \A new \in records' \ records :
                \E old \in records \ records' :
                    /\ \A f \in KeyFields \cup SnapshotFields : new[f] = old[f]
                    /\ 2 * Abs(100 * new.venit_generat - new.ore_lucrate * old.tarif_orar) <= 100
       /\ resp'.detail = "invoice_issued" => invoices \subseteq invoices']_vars

\* Client 2 now has tariff 30.00; its record, saved again with 100 hours, still
\* has tariff 25.25 and revenue 2525.00; its first invoice still has rate 25.25
\* and subtotal 4223.06, and a later invoice has rate 30.00.
TariffChangedAfterwards ==
    /\ 2 \in DOMAIN clients
    /\ clients[2].tarif_orar = 3000
    /\ \E r \in records :
        /\ r.client = 2
        /\ r.ore_lucrate = 10000
        /\ r.tarif_orar = 2525
        /\ r.venit_generat = 252500
    /\ \E inv \in invoices :
        /\ inv.client = 2
        /\ inv.hourly_rate = 2525
        /\ inv.subtotal = 422306
    /\ \E inv \in invoices : inv.client = 2 /\ inv.hourly_rate = 3000

\* C25: a create, update or delete of a client succeeds only for a Management or
\* Admin user; an Expert or an Agent is answered 403 and the clients stay as they
\* were; a read is answered 200 with the clients to every authenticated user and
\* 401 to a request without credentials.
ClientWritesByManagement ==
    [][(/\ Len(request') = 1
        /\ "path" \in DOMAIN request'[1]
        /\ request'[1].path = "clients") =>
          LET u == request'[1].user
              method == request'[1].method
          IN  /\ method = "GET" =>
                    IF u.is_authenticated
                    THEN resp'.status = 200 /\ resp'.ids = DOMAIN clients /\ clients' = clients
                    ELSE resp'.status = 401
              /\ method # "GET" =>
                    /\ u.role \in {"Expert", "Agent"} =>
                            (resp'.status = 403 /\ clients' = clients)
                    /\ (resp'.status \in {200, 201, 204} \/ clients' # clients) =>
                            u.role \in {"Management", "Admin"}]_vars

\* An Expert has just been refused the deletion of a client that a Management
\* user created.
ExpertRefusedClientDelete ==
    /\ request = <<ClientRequest(ExpertUser, "DELETE")>>
    /\ resp.status = 403
    /\ DOMAIN clients = {1, 2, 3}

----------------------------------------------------------------------------
(* Properties of the worker endpoints *)

\* The step answers a request to /api/workers/ with the given method.
WorkerStep(method) ==
    /\ Len(request') = 1
    /\ "path" \in DOMAIN request'[1]
    /\ request'[1].path = "workers"
    /\ request'[1].method = method

\* The workers a list or detail request answers with are those of get_queryset:
\* for an Agent the ones whose agent is the user, for the other roles all.
ReturnedByRole ==
    WorkerStep("GET") =>
        LET u == request'[1].user
            id == request'[1].id
            visible == IF u.role = "Agent" THEN {w \in workers : w.agent = u.id} ELSE workers
        IN  /\ resp'.status = 200 <=> (u.is_authenticated /\ (id = 0 \/ \E w \in visible : w.id = id))
            /\ resp'.status = 200 =>
                resp'.workers = IF id = 0 THEN visible ELSE {w \in visible : w.id = id}

StatusChangeLogged ==
    /\ [][\A t \in Threads :
            (save_post_save(t) /\ ~saves[t].created) =>
                LET instance == saves[t].instance
                    before == saves[t].before
                IN  /\ Len(activity') = Len(activity) + 1
                    /\ activity'[Len(activity')] =
                        IF before # instance.status
                        THEN LogEntry("STATUS_CHANGE", instance, before, instance.status)
                        ELSE LogEntry("UPDATE", instance, "", "")]_vars
    /\ [](InProgress = {} => DOMAIN previous_state = {})

----------------------------------------------------------------------------
(* Properties of the recomputation *)

\* The instance of a stored row with its cota_indirecte divided by n: the exact
\* share an import holds before the row is written.
WithShare(r, n) == [FromRow(r) EXCEPT !.cota_indirecte = Norm(<<r.cota_indirecte, n>>)]

\* The instance with its derived fields set to the given amount.
WithDerived(inst, amount) ==
    [f \in RecordFields |-> IF f \in DerivedFields THEN Rat(amount) ELSE inst[f]]

\* C26: on an unvalidated record, calculate_costs_and_profit applied twice gives
\* the four derived values it gives applied once, whatever derived values the
\* instance held before; a second save of the instance writes the row the first
\* wrote, and so does a save of the row that a save of a stored row wrote.
RecomputeIdempotent ==
    \A r \in records, n \in {1, 3} :
        ~r.is_validated =>
            LET inst == WithShare(r, n)
                once == calculate_costs_and_profit(inst)
                row == EcoFinProcessedRecord_save(inst)
            IN  /\ Derived(calculate_costs_and_profit(once)) = Derived(once)
                /\ \A amount \in {0, 12345} :
                      Derived(calculate_costs_and_profit(WithDerived(inst, amount))) = Derived(once)
                /\ EcoFinProcessedRecord_save(once) = row
                /\ n = 1 => EcoFinProcessedRecord_save(FromRow(row)) = row

\* A record with costs and revenue has just been saved again through PATCH, and
\* saving it once more would write the same row.
RecordSavedAgain ==
    /\ resp.status = 200
    /\ resp.detail = "updated"
    /\ \E r \in records :
        /\ ~r.is_validated
        /\ r.cost_salariat_total # 0
        /\ r.venit_generat # 0
        /\ r.profitabilitate # 0
        /\ EcoFinProcessedRecord_save(FromRow(r)) = r

----------------------------------------------------------------------------
(* Properties of the import of a validated month *)

\* Some record of the period is validated.
MonthValidated(p) == \E r \in records : InPeriod(r, p) /\ r.is_validated

\* The step answers an upload or process_import for the period with 200.
ImportAccepted(p) ==
    /\ resp'.detail \in {"preview", "import_processed"}
    /\ resp'.year = p.year
    /\ resp'.month = p.month

\* C27: once a record of a month is validated, no upload and no process_import
\* for that month is accepted, and no step but a further validate_month changes
\* the month's records.
ValidatedMonthClosed ==
    [][\A p \in Periods :
          MonthValidated(p) =>
              /\ ~ImportAccepted(p)
              /\ resp'.detail # "month_validated" =>
                    {r \in records' : InPeriod(r, p)} = {r \in records : InPeriod(r, p)}]_vars

\* C28: an import that removes an unvalidated record of its month has every valid
\* row of the request committed as a record of the month, and removes no record of
\* another month and no validated record.
ImportReplacesAtomically ==
    [][resp'.detail = "import_processed" =>
          LET p == [year |-> resp'.year, month |-> resp'.month]
              before == {r \in records : InPeriod(r, p) /\ ~r.is_validated}
              after == {r \in records' : InPeriod(r, p) /\ ~r.is_validated}
              valid_count == Cardinality({i \in DOMAIN request' : request'[i].is_valid})
          IN  /\ ~(before \subseteq after) => Cardinality(after) = valid_count
              /\ records \ before \subseteq records']_vars

----------------------------------------------------------------------------
(* Properties of the delivery of payments *)

\* C29: a run in which applying the listed payment raised leaves the lower bound
\* of every later run's query at or before the day of the payment, so that the
\* payment is listed again.
FailedPaymentFetchedAgain ==
    [][(/\ Len(synclogs') = Len(synclogs) + 1
        /\ resp'.detail = "sync_done"
        /\ resp'.errors > 0) =>
            \A ts \in now .. MaxTime : StartDate(LowerBound(synclogs', ts)) <= EventDay]_vars

====
